---------------------------- MODULE Spec2Model ----------------------------
(***************************************************************************)
(* Model of the command-intent routing and conversation-state engine of    *)
(* the voice assistant (src/core/command_handler.py, class CommandHandler). *)
(*                                                                         *)
(* Text.  A Python str is modelled as a sequence of characters; every      *)
(* character is a one-token TLA+ string.  ASCII letters and digits stand    *)
(* for themselves; a CJK character is written as its pinyin, with a digit   *)
(* suffix where two characters share a syllable.  Each table below carries  *)
(* the source's literal in a comment, e.g. <<"da","kai">> is 打开.          *)
(***************************************************************************)
EXTENDS Integers, Sequences, FiniteSets

(***************************************************************************)
(* Characters                                                              *)
(***************************************************************************)
\* Whitespace (regex \s) and the characters that are neither \w nor \s
\* (punctuation, emoji).  Everything else (letters, digits, CJK) is \w.
SpaceChars == {" "}
PunctChars == {"!", "?", ",", ".", ":", "~", "-", "emoji",
               "colon2", "comma2", "period2", "dun", "bang2", "qm2",
               "deg"}                           \* ： ， 。 、 ！ ？ °
DigitChars == {"0", "1", "2", "3", "4", "5", "6", "7", "8", "9"}
UpperChars == <<"A", "B", "C", "D", "E", "F", "G", "H", "I", "J", "K", "L", "M",
                "N", "O", "P", "Q", "R", "S", "T", "U", "V", "W", "X", "Y", "Z">>
LowerChars == <<"a", "b", "c", "d", "e", "f", "g", "h", "i", "j", "k", "l", "m",
                "n", "o", "p", "q", "r", "s", "t", "u", "v", "w", "x", "y", "z">>

IsSpaceCh(c) == c \in SpaceChars
IsWordCh(c) == c \notin (SpaceChars \cup PunctChars)
IsDigitCh(c) == c \in DigitChars

\* str.lower() on one character
LowerCh(c) ==
    IF \E k \in 1..26 : UpperChars[k] = c
    THEN LowerChars[CHOOSE k \in 1..26 : UpperChars[k] = c]
    ELSE c

\* str.lower()
Lower(t) == [i \in 1..Len(t) |-> LowerCh(t[i])]

(***************************************************************************)
(* Python str primitives                                                   *)
(***************************************************************************)
\* t[i:i+len(w)] == w
OccursAt(t, w, i) ==
    /\ i >= 1
    /\ i + Len(w) - 1 <= Len(t)
    /\ \A k \in 1..Len(w) : t[i + k - 1] = w[k]

\* w in t
Has(t, w) == \E i \in 1..(Len(t) - Len(w) + 1) : OccursAt(t, w, i)

\* any(w in t for w in words)
HasAny(t, words) == \E k \in 1..Len(words) : Has(t, words[k])

\* t.find(w), 1-based; 0 when absent
Find(t, w) ==
    IF Has(t, w)
    THEN CHOOSE i \in 1..(Len(t) - Len(w) + 1) :
            /\ OccursAt(t, w, i)
            /\ \A j \in 1..(i - 1) : ~OccursAt(t, w, j)
    ELSE 0

\* t.startswith(w), t.endswith(w)
StartsWith(t, w) == OccursAt(t, w, 1)
EndsWith(t, w) == Len(w) <= Len(t) /\ OccursAt(t, w, Len(t) - Len(w) + 1)

\* t[i:] for a 1-based i
Drop(t, i) == SubSeq(t, i, Len(t))

\* t.replace(old, new): left to right, non-overlapping (old is never empty)
RECURSIVE Replace(_, _, _)
Replace(t, old, new) ==
    IF Len(t) = 0 THEN <<>>
    ELSE IF OccursAt(t, old, 1)
         THEN new \o Replace(Drop(t, Len(old) + 1), old, new)
         ELSE <<t[1]>> \o Replace(Drop(t, 2), old, new)

\* for old, new in table[lo..hi]: t = t.replace(old, new), the rows applied in
\* table order.  The range is halved, and an empty text (which no row can
\* change) is returned at once, to keep the evaluation shallow.
RECURSIVE ReplaceRange(_, _, _, _)
ReplaceRange(t, table, lo, hi) ==
    IF lo > hi THEN t
    ELSE IF lo = hi THEN Replace(t, table[lo][1], table[lo][2])
    ELSE LET mid == (lo + hi) \div 2
             half == ReplaceRange(t, table, lo, mid)
         IN  IF Len(half) = 0 THEN half ELSE ReplaceRange(half, table, mid + 1, hi)

\* for old, new in table: t = t.replace(old, new)   (table: sequence of pairs)
ReplaceEach(t, table, k) == ReplaceRange(t, table, k, Len(table))

\* for w in words: t = t.replace(w, "")
RemoveEach(t, words, k) ==
    ReplaceRange(t, [j \in 1..Len(words) |-> <<words[j], <<>>>>], k, Len(words))

\* the value of a digit character
DigitSeq == <<"0", "1", "2", "3", "4", "5", "6", "7", "8", "9">>
DigitVal(c) == (CHOOSE k \in 1..10 : DigitSeq[k] = c) - 1

\* str.isdigit()
IsDigitStr(t) == Len(t) > 0 /\ \A i \in 1..Len(t) : IsDigitCh(t[i])

\* int(t) for a digit string
RECURSIVE ToInt(_)
ToInt(t) ==
    IF Len(t) = 0 THEN 0
    ELSE 10 * ToInt(SubSeq(t, 1, Len(t) - 1))
         + DigitVal(t[Len(t)])

(***************************************************************************)
(* Regular expressions (module re).  A pattern is a tree; RxAt returns the  *)
(* matches that start at position i as a sequence ordered the way the       *)
(* backtracking matcher tries them, so its head is the match re finds.      *)
(* A match is [e |-> the position after it, g |-> <<from, to>> of group 1]. *)
(***************************************************************************)
Lit(s) == [op |-> "lit", s |-> s]                    \* literal text
Cls(cs) == [op |-> "cls", cs |-> cs]                 \* [...] over a set
NotCls(cs) == [op |-> "ncls", cs |-> cs]             \* [^...]
Digit == [op |-> "digit"]                            \* \d
Word == [op |-> "word"]                              \* \w
NonSpace == [op |-> "nonspace"]                      \* \S
Space == [op |-> "space"]                            \* \s
AnyCh == [op |-> "any"]                              \* .
Bol == [op |-> "bol"]                                \* ^
Eol == [op |-> "eol"]                                \* $
Wb == [op |-> "wb"]                                  \* \b
Cat(xs) == [op |-> "cat", xs |-> xs]                 \* x1 x2 ...
Alt(xs) == [op |-> "alt", xs |-> xs]                 \* x1|x2|...
Grp(x) == [op |-> "grp", x |-> x]                    \* ( x ), group 1
RxInf == 0 - 1                                      \* no upper limit
Rep(x, lo, hi) == [op |-> "rep", x |-> x, lo |-> lo, hi |-> hi, greedy |-> TRUE]
RepLazy(x, lo, hi) == [op |-> "rep", x |-> x, lo |-> lo, hi |-> hi, greedy |-> FALSE]
Opt(x) == Rep(x, 0, 1)                               \* x?
Plus(x) == Rep(x, 1, RxInf)                          \* x+
Star(x) == Rep(x, 0, RxInf)                          \* x*
LazyPlus(x) == RepLazy(x, 1, RxInf)                  \* x+?
LazyStar(x) == RepLazy(x, 0, RxInf)                  \* x*?
\* (?:w1|w2|...) over literal words
Words(ws) == Alt([k \in 1..Len(ws) |-> Lit(ws[k])])

NoGroup == <<0, 0>>

RxClassHas(r, c) ==
    CASE r.op = "cls" -> c \in r.cs
      [] r.op = "ncls" -> c \notin r.cs
      [] r.op = "digit" -> IsDigitCh(c)
      [] r.op = "word" -> IsWordCh(c)
      [] r.op = "nonspace" -> ~IsSpaceCh(c)
      [] r.op = "space" -> IsSpaceCh(c)
      [] r.op = "any" -> TRUE

RxIsWordAt(t, i) == i >= 1 /\ i <= Len(t) /\ IsWordCh(t[i])

RECURSIVE RxAt(_, _, _, _), RxCat(_, _, _, _, _), RxCatAll(_, _, _, _),
          RxAlt(_, _, _, _, _), RxRep(_, _, _, _, _, _, _),
          RxRepAll(_, _, _, _, _, _)

RxAt(r, t, i, g) ==
    CASE r.op = "lit" ->
            IF OccursAt(t, r.s, i) THEN <<[e |-> i + Len(r.s), g |-> g]>> ELSE <<>>
      [] r.op \in {"cls", "ncls", "digit", "word", "nonspace", "space", "any"} ->
            IF i <= Len(t) /\ RxClassHas(r, t[i])
            THEN <<[e |-> i + 1, g |-> g]>> ELSE <<>>
      [] r.op = "bol" -> IF i = 1 THEN <<[e |-> i, g |-> g]>> ELSE <<>>
      [] r.op = "eol" -> IF i = Len(t) + 1 THEN <<[e |-> i, g |-> g]>> ELSE <<>>
      [] r.op = "wb" ->
            IF RxIsWordAt(t, i - 1) # RxIsWordAt(t, i)
            THEN <<[e |-> i, g |-> g]>> ELSE <<>>
      [] r.op = "cat" -> RxCat(r.xs, 1, t, i, g)
      [] r.op = "alt" -> RxAlt(r.xs, 1, t, i, g)
      [] r.op = "rep" -> RxRep(r.x, r.lo, r.hi, r.greedy, t, i, g)
      [] r.op = "grp" ->
            LET ms == RxAt(r.x, t, i, g)
            IN  [k \in 1..Len(ms) |-> [e |-> ms[k].e, g |-> <<i, ms[k].e>>]]

\* xs[k..] matched from i
RxCat(xs, k, t, i, g) ==
    IF k > Len(xs) THEN <<[e |-> i, g |-> g]>>
    ELSE RxCatAll(RxAt(xs[k], t, i, g), xs, k + 1, t)

\* every way to go on with xs[k..] after each of the matches ms, in order
RxCatAll(ms, xs, k, t) ==
    IF Len(ms) = 0 THEN <<>>
    ELSE RxCat(xs, k, t, ms[1].e, ms[1].g) \o RxCatAll(Tail(ms), xs, k, t)

RxAlt(xs, k, t, i, g) ==
    IF k > Len(xs) THEN <<>>
    ELSE RxAt(xs[k], t, i, g) \o RxAlt(xs, k + 1, t, i, g)

\* x{lo,hi}: a greedy repeat tries one more x first, a lazy one tries to stop first
RxRep(x, lo, hi, greedy, t, i, g) ==
    LET stop == IF lo = 0 THEN <<[e |-> i, g |-> g]>> ELSE <<>>
        once == SelectSeq(RxAt(x, t, i, g), LAMBDA m : m.e > i)
        more == IF hi = 0 THEN <<>>
                ELSE RxRepAll(once, x, IF lo = 0 THEN 0 ELSE lo - 1,
                              IF hi = RxInf THEN RxInf ELSE hi - 1, greedy, t)
    IN  IF greedy THEN more \o stop ELSE stop \o more

RxRepAll(ms, x, lo, hi, greedy, t) ==
    IF Len(ms) = 0 THEN <<>>
    ELSE RxRep(x, lo, hi, greedy, t, ms[1].e, ms[1].g)
         \o RxRepAll(Tail(ms), x, lo, hi, greedy, t)

NoMatch == [ok |-> FALSE, s |-> 0, e |-> 0, g |-> NoGroup]

\* re.match(r, t): a match at the start of t
RxMatch(r, t) ==
    LET ms == RxAt(r, t, 1, NoGroup)
    IN  IF Len(ms) = 0 THEN NoMatch
        ELSE [ok |-> TRUE, s |-> 1, e |-> ms[1].e, g |-> ms[1].g]

\* re.search(r, t): the leftmost match
RECURSIVE RxSearchFrom(_, _, _)
RxSearchFrom(r, t, i) ==
    IF i > Len(t) + 1 THEN NoMatch
    ELSE LET ms == RxAt(r, t, i, NoGroup)
         IN  IF Len(ms) = 0 THEN RxSearchFrom(r, t, i + 1)
             ELSE [ok |-> TRUE, s |-> i, e |-> ms[1].e, g |-> ms[1].g]

RxSearch(r, t) == RxSearchFrom(r, t, 1)

\* match.group(1), match.group()
Group1(t, m) == SubSeq(t, m.g[1], m.g[2] - 1)
Group0(t, m) == SubSeq(t, m.s, m.e - 1)

\* the first pattern of a list that re.search finds in t: [k, m], k = 0 when none
RECURSIVE FirstSearch(_, _, _)
FirstSearch(ps, t, k) ==
    IF k > Len(ps) THEN [k |-> 0, m |-> NoMatch]
    ELSE LET m == RxSearch(ps[k], t)
         IN  IF m.ok THEN [k |-> k, m |-> m] ELSE FirstSearch(ps, t, k + 1)

\* any(re.search(p, t) for p in ps), any(re.match(p, t) for p in ps)
AnySearch(ps, t) == \E k \in 1..Len(ps) : RxSearch(ps[k], t).ok
AnyMatch(ps, t) == \E k \in 1..Len(ps) : RxMatch(ps[k], t).ok

(***************************************************************************)
(* Optional values: a Python None is <<>>, any other value v is <<v>>.      *)
(***************************************************************************)
None == <<>>
Some(v) == <<v>>
IsNone(o) == Len(o) = 0
IsSome(o) == Len(o) = 1
Val(o) == o[1]

\* key in d, d[key] for a dict written as a sequence of <<key, value>> pairs
DictHas(d, key) == \E k \in 1..Len(d) : d[k][1] = key
DictGet(d, key) == d[CHOOSE k \in 1..Len(d) : d[k][1] = key][2]

UpperSet == {UpperChars[k] : k \in 1..26}
LowerSet == {LowerChars[k] : k \in 1..26}

(***************************************************************************)
(* TextNormalizer: CommandHandler._clean_text                              *)
(***************************************************************************)
\* _clean_text filler_words (l.1486-1489): 啊 呢 吧 呀 哦 嗯 那个 这个 然后 就是 啦 嘛 哟 呃 哎 喂 哈 哼 哇 呐
filler_words == <<
    <<"a5">>, <<"ne">>, <<"ba3">>, <<"ya">>, <<"o2">>,
    <<"en">>, <<"na", "ge">>, <<"zhe", "ge">>, <<"ran", "hou">>, <<"jiu2", "shi4">>,
    <<"la">>, <<"ma">>, <<"yo">>, <<"e2">>, <<"ai">>,
    <<"wei">>, <<"ha">>, <<"heng">>, <<"wa">>, <<"na2">> >>

\* _clean_text common_errors (l.1496-1511)
common_errors == <<
    <<<<"xiang2", "zi">>, <<"gui", "zi">>>>,   \* 相子 -> 柜子
    <<<<"xiang", "zi">>, <<"gui", "zi">>>>,   \* 箱子 -> 柜子
    <<<<"gui2", "zi">>, <<"gui", "zi">>>>,   \* 贵子 -> 柜子
    <<<<"gui", "le">>, <<"gui", "zi">>>>,   \* 柜了 -> 柜子
    <<<<"gui", "le2">>, <<"gui", "zi">>>>,   \* 柜勒 -> 柜子
    <<<<"gui", "la">>, <<"gui", "zi">>>>,   \* 柜啦 -> 柜子
    <<<<"guan", "bi2">>, <<"guan", "bi">>>>,   \* 关毕 -> 关闭
    <<<<"wan", "bi2">>, <<"guan", "bi">>>>,   \* 完毕 -> 关闭
    <<<<"guan", "diao">>, <<"guan", "bi">>>>,   \* 关掉 -> 关闭
    <<<<"da", "kai">>, <<"da", "kai">>>>,   \* 打开 -> 打开
    <<<<"kai", "qi2">>, <<"da", "kai">>>>,   \* 开启 -> 打开
    <<<<"guan", "bi">>, <<"guan", "bi">>>>,   \* 关闭 -> 关闭
    <<<<"ting", "zhi11">>, <<"guan", "bi">>>>,   \* 停止 -> 关闭
    <<<<"lei">>, <<"lie">>>> >>   \* 类 -> 列

\* re.sub(r'[^\w一-龥\s]', '', text), then the filler particles are
\* deleted, the homophone table is applied and all whitespace is removed.
_clean_text(text) ==
    IF Len(text) = 0 THEN <<>>
    ELSE LET kept == SelectSeq(text, LAMBDA c : IsWordCh(c) \/ IsSpaceCh(c))
             nofill == RemoveEach(kept, filler_words, 1)
             fixed == ReplaceEach(nofill, common_errors, 1)
         IN  SelectSeq(fixed, LAMBDA c : ~IsSpaceCh(c))

(***************************************************************************)
(* Pure-wakeup detection: CommandHandler._is_pure_wakeup_call              *)
(***************************************************************************)
\* _is_pure_wakeup_call greeting_words (l.2367): 你好 您好 嗨 嘿 喂 哈喽 hello hi
greeting_words == <<
    <<"ni", "hao2">>, <<"nin", "hao2">>, <<"hai">>, <<"hei">>, <<"wei">>, <<"ha", "lou">>, <<"h", "e", "l", "l", "o">>, <<"h", "i">> >>

\* _is_pure_wakeup_call xiaozhi_variants (l.2368): 小智 小知 小之 小志 小只 小指 小枝 小纸 小直 小稚
xiaozhi_variants == <<
    <<"xiao", "zhi">>, <<"xiao", "zhi2">>, <<"xiao", "zhi3">>, <<"xiao", "zhi4">>, <<"xiao", "zhi5">>,
    <<"xiao", "zhi6">>, <<"xiao", "zhi7">>, <<"xiao", "zhi8">>, <<"xiao", "zhi9">>, <<"xiao", "zhi10">> >>

\* f'({greeting_pattern}).*?({xiaozhi_pattern})|({xiaozhi_pattern}).*?({greeting_pattern})'
wakeup_pattern ==
    Alt(<<Cat(<<Words(greeting_words), LazyStar(AnyCh), Words(xiaozhi_variants)>>),
          Cat(<<Words(xiaozhi_variants), LazyStar(AnyCh), Words(greeting_words)>>)>>)

\* _is_pure_wakeup_call without the check of short texts
_is_pure_wakeup_call_by_pattern(text) ==
    IF Len(text) = 0 THEN FALSE
    ELSE RxSearch(wakeup_pattern, Lower(text)).ok

\* The search is re.IGNORECASE over lower-case literals: the text is lowered.
_is_pure_wakeup_call(text) ==
    IF Len(text) = 0 THEN FALSE
    ELSE \/ RxSearch(wakeup_pattern, Lower(text)).ok
         \/ /\ Len(text) <= 4
            /\ HasAny(text, xiaozhi_variants \o greeting_words)

(***************************************************************************)
(* Exit detection: CommandHandler._is_exit_command                         *)
(***************************************************************************)
\* _is_exit_command chat_exit_keywords (l.173): 退出聊天 结束聊天 停止聊天 不聊了 聊完了 结束对话
chat_exit_keywords == <<
    <<"tui", "chu", "liao", "tian">>, <<"jie", "shu", "liao", "tian">>, <<"ting", "zhi11", "liao", "tian">>,
    <<"bu", "liao", "le">>, <<"liao", "wan", "le">>, <<"jie", "shu", "dui", "hua">> >>

\* _is_exit_command close_cabinet_keywords (l.179-185): 关闭柜子 关柜子 关掉柜子 关上柜子 关毕柜子 完毕柜子 关闭档案柜 关档案柜 关掉档案柜 关上档案柜 关闭柜了 关柜了 关掉柜了 关上柜了 关相子 关箱子 关贵子 把柜子关上关闭相子 关闭箱子 关闭贵子
close_cabinet_keywords == <<
    <<"guan", "bi", "gui", "zi">>, <<"guan", "gui", "zi">>, <<"guan", "diao", "gui", "zi">>,
    <<"guan", "shang", "gui", "zi">>, <<"guan", "bi2", "gui", "zi">>, <<"wan", "bi2", "gui", "zi">>,
    <<"guan", "bi", "dang", "an", "gui">>, <<"guan", "dang", "an", "gui">>, <<"guan", "diao", "dang", "an", "gui">>,
    <<"guan", "shang", "dang", "an", "gui">>, <<"guan", "bi", "gui", "le">>, <<"guan", "gui", "le">>,
    <<"guan", "diao", "gui", "le">>, <<"guan", "shang", "gui", "le">>, <<"guan", "xiang2", "zi">>,
    <<"guan", "xiang", "zi">>, <<"guan", "gui2", "zi">>, <<"ba2", "gui", "zi", "guan", "shang", "guan", "bi", "xiang2", "zi">>,
    <<"guan", "bi", "xiang", "zi">>, <<"guan", "bi", "gui2", "zi">> >>

\* _is_exit_command device_indicators (l.193-196): 柜子 档案柜 柜 列 号 温度 湿度 度 通风 空调 换气 状态 查询 查看
device_indicators == <<
    <<"gui", "zi">>, <<"dang", "an", "gui">>, <<"gui">>, <<"lie">>, <<"hao">>, <<"wen", "du">>, <<"shi2", "du">>,
    <<"du">>, <<"tong2", "feng">>, <<"kong", "tiao2">>, <<"huan", "qi3">>, <<"zhuang", "tai">>, <<"cha", "xun">>, <<"cha", "kan">> >>

\* _is_exit_command exit_patterns (l.213-220)
exit_patterns == <<
    \* ^退出$
    Cat(<<Bol, Lit(<<"tui", "chu">>), Eol>>),
    \* ^结束$
    Cat(<<Bol, Lit(<<"jie", "shu">>), Eol>>),
    \* ^再见$
    Cat(<<Bol, Lit(<<"zai", "jian">>), Eol>>),
    \* ^拜拜$
    Cat(<<Bol, Lit(<<"bai", "bai">>), Eol>>),
    \* ^退出系统$
    Cat(<<Bol, Lit(<<"tui", "chu", "xi", "tong">>), Eol>>),
    \* ^结束对话$
    Cat(<<Bol, Lit(<<"jie", "shu", "dui", "hua">>), Eol>>),
    \* ^关闭系统$
    Cat(<<Bol, Lit(<<"guan", "bi", "xi", "tong">>), Eol>>),
    \* ^小智退出$
    Cat(<<Bol, Lit(<<"xiao", "zhi", "tui", "chu">>), Eol>>),
    \* ^小智再见$
    Cat(<<Bol, Lit(<<"xiao", "zhi", "zai", "jian">>), Eol>>),
    \* ^小智拜拜$
    Cat(<<Bol, Lit(<<"xiao", "zhi", "bai", "bai">>), Eol>>),
    \* ^系统退出$
    Cat(<<Bol, Lit(<<"xi", "tong", "tui", "chu">>), Eol>>),
    \* ^程序退出$
    Cat(<<Bol, Lit(<<"cheng", "xu", "tui", "chu">>), Eol>>),
    \* ^应用退出$
    Cat(<<Bol, Lit(<<"ying", "yong", "tui", "chu">>), Eol>>),
    \* ^关闭助手$
    Cat(<<Bol, Lit(<<"guan", "bi", "zhu", "shou">>), Eol>>),
    \* ^关闭语音$
    Cat(<<Bol, Lit(<<"guan", "bi", "yu", "yin">>), Eol>>),
    \* ^关闭对话$
    Cat(<<Bol, Lit(<<"guan", "bi", "dui", "hua">>), Eol>>),
    \* ^停止语音$
    Cat(<<Bol, Lit(<<"ting", "zhi11", "yu", "yin">>), Eol>>),
    \* ^停止对话$
    Cat(<<Bol, Lit(<<"ting", "zhi11", "dui", "hua">>), Eol>>) >>

\* _is_exit_command exit_keywords (l.227): 退出 结束 结束对话 退出系统 再见 拜拜 停止语音 停止对话
exit_keywords == <<
    <<"tui", "chu">>, <<"jie", "shu">>, <<"jie", "shu", "dui", "hua">>, <<"tui", "chu", "xi", "tong">>,
    <<"zai", "jian">>, <<"bai", "bai">>, <<"ting", "zhi11", "yu", "yin">>, <<"ting", "zhi11", "dui", "hua">> >>

\* _is_exit_command exit_indicators (l.231): 系统 程序 应用 助手 小智 语音 对话
exit_indicators == <<
    <<"xi", "tong">>, <<"cheng", "xu">>, <<"ying", "yong">>, <<"zhu", "shou">>, <<"xiao", "zhi">>, <<"yu", "yin">>, <<"dui", "hua">> >>

close_word == <<"guan", "bi">>     \* 关闭

\* _is_exit_command without the device checks, taking 关闭 for an exit word
_is_exit_command_on_close_word(text, in_chat_mode) ==
    IF Len(text) = 0 THEN FALSE
    ELSE
    LET cleaned_text == _clean_text(text)
        text_lower == Lower(cleaned_text)
    IN  IF in_chat_mode /\ HasAny(cleaned_text, chat_exit_keywords) THEN TRUE
        ELSE IF AnyMatch(exit_patterns, text_lower) THEN TRUE
        ELSE IF Has(cleaned_text, close_word) THEN TRUE
        ELSE HasAny(text_lower, exit_keywords)

\* chat_mode is self.chat_mode
_is_exit_command(text, in_chat_mode) ==
    IF Len(text) = 0 THEN FALSE
    ELSE
    LET cleaned_text == _clean_text(text)
        text_lower == Lower(cleaned_text)
        remaining_text == Drop(cleaned_text, Find(cleaned_text, close_word) + 2)
    IN  IF in_chat_mode /\ HasAny(cleaned_text, chat_exit_keywords) THEN TRUE
        ELSE IF HasAny(cleaned_text, close_cabinet_keywords) THEN FALSE
        ELSE IF HasAny(cleaned_text, device_indicators) THEN FALSE
        ELSE IF Has(cleaned_text, close_word)
                /\ HasAny(remaining_text, device_indicators) THEN FALSE
        ELSE IF AnyMatch(exit_patterns, text_lower) THEN TRUE
        ELSE IF Has(cleaned_text, close_word)
             THEN HasAny(text_lower, exit_indicators)
        ELSE HasAny(text_lower, exit_keywords)

(***************************************************************************)
(* Selection-looks-like detection and the selection index                  *)
(***************************************************************************)
\* _looks_like_selection_command selection_patterns (l.364-373)
selection_patterns == <<
    \* ^第[一二三四五六七八九十\d]+[条个项记录]$
    Cat(<<Bol, Lit(<<"di">>), Plus(Cls({"yi", "er", "san", "si", "wu", "liu", "qi", "ba", "jiu", "shi"} \cup DigitChars)), Cls({"tiao", "ge", "xiang3", "ji", "lu"}), Eol>>),
    \* ^选择?第[一二三四五六七八九十\d]+[条个项记录]$
    Cat(<<Bol, Lit(<<"xuan">>), Opt(Lit(<<"ze">>)), Lit(<<"di">>), Plus(Cls({"yi", "er", "san", "si", "wu", "liu", "qi", "ba", "jiu", "shi"} \cup DigitChars)), Cls({"tiao", "ge", "xiang3", "ji", "lu"}), Eol>>),
    \* ^[一二三四五六七八九十\d]+[条个项记录]$
    Cat(<<Bol, Plus(Cls({"yi", "er", "san", "si", "wu", "liu", "qi", "ba", "jiu", "shi"} \cup DigitChars)), Cls({"tiao", "ge", "xiang3", "ji", "lu"}), Eol>>),
    \* ^选择?[一二三四五六七八九十\d]+[条个项记录]$
    Cat(<<Bol, Lit(<<"xuan">>), Opt(Lit(<<"ze">>)), Plus(Cls({"yi", "er", "san", "si", "wu", "liu", "qi", "ba", "jiu", "shi"} \cup DigitChars)), Cls({"tiao", "ge", "xiang3", "ji", "lu"}), Eol>>),
    \* ^第一条$
    Cat(<<Bol, Lit(<<"di", "yi", "tiao">>), Eol>>),
    \* ^第二条$
    Cat(<<Bol, Lit(<<"di", "er", "tiao">>), Eol>>),
    \* ^第三条$
    Cat(<<Bol, Lit(<<"di", "san", "tiao">>), Eol>>),
    \* ^第四条$
    Cat(<<Bol, Lit(<<"di", "si", "tiao">>), Eol>>),
    \* ^第五条$
    Cat(<<Bol, Lit(<<"di", "wu", "tiao">>), Eol>>),
    \* ^第一个$
    Cat(<<Bol, Lit(<<"di", "yi", "ge">>), Eol>>),
    \* ^第二个$
    Cat(<<Bol, Lit(<<"di", "er", "ge">>), Eol>>),
    \* ^第三个$
    Cat(<<Bol, Lit(<<"di", "san", "ge">>), Eol>>),
    \* ^第四个$
    Cat(<<Bol, Lit(<<"di", "si", "ge">>), Eol>>),
    \* ^第五个$
    Cat(<<Bol, Lit(<<"di", "wu", "ge">>), Eol>>),
    \* ^首选$
    Cat(<<Bol, Lit(<<"shou2", "xuan">>), Eol>>),
    \* ^首条$
    Cat(<<Bol, Lit(<<"shou2", "tiao">>), Eol>>),
    \* ^首个$
    Cat(<<Bol, Lit(<<"shou2", "ge">>), Eol>>),
    \* ^第一个$
    Cat(<<Bol, Lit(<<"di", "yi", "ge">>), Eol>>),
    \* ^第一条$
    Cat(<<Bol, Lit(<<"di", "yi", "tiao">>), Eol>>),
    \* ^选择一$
    Cat(<<Bol, Lit(<<"xuan", "ze", "yi">>), Eol>>),
    \* ^选择二$
    Cat(<<Bol, Lit(<<"xuan", "ze", "er">>), Eol>>),
    \* ^选择三$
    Cat(<<Bol, Lit(<<"xuan", "ze", "san">>), Eol>>),
    \* ^选择四$
    Cat(<<Bol, Lit(<<"xuan", "ze", "si">>), Eol>>),
    \* ^选择五$
    Cat(<<Bol, Lit(<<"xuan", "ze", "wu">>), Eol>>) >>

\* _looks_like_selection_command simple_patterns (l.381-384)
simple_patterns == <<
    \* 第[一二三四五六七八九十]+
    Cat(<<Lit(<<"di">>), Plus(Cls({"yi", "er", "san", "si", "wu", "liu", "qi", "ba", "jiu", "shi"}))>>),
    \* [一二三四五六七八九十]+[条个]
    Cat(<<Plus(Cls({"yi", "er", "san", "si", "wu", "liu", "qi", "ba", "jiu", "shi"})), Cls({"tiao", "ge"})>>) >>

\* _looks_like_selection_command by simple_patterns alone
_looks_like_selection_command_simple(text) ==
    IF Len(text) = 0 THEN FALSE
    ELSE AnySearch(simple_patterns, text) /\ Len(text) <= 6

_looks_like_selection_command(text) ==
    IF Len(text) = 0 THEN FALSE
    ELSE \/ AnyMatch(selection_patterns, text)
         \/ AnySearch(simple_patterns, text) /\ Len(text) <= 6

\* _extract_selection_index chinese_numbers (l.2207-2214)
chinese_numbers == <<
    <<<<"yi">>, 1>>,   \* 一 -> 1
    <<<<"er">>, 2>>,   \* 二 -> 2
    <<<<"san">>, 3>>,   \* 三 -> 3
    <<<<"si">>, 4>>,   \* 四 -> 4
    <<<<"wu">>, 5>>,   \* 五 -> 5
    <<<<"liu">>, 6>>,   \* 六 -> 6
    <<<<"qi">>, 7>>,   \* 七 -> 7
    <<<<"ba">>, 8>>,   \* 八 -> 8
    <<<<"jiu">>, 9>>,   \* 九 -> 9
    <<<<"shi">>, 10>>,   \* 十 -> 10
    <<<<"di", "yi">>, 1>>,   \* 第一 -> 1
    <<<<"di", "er">>, 2>>,   \* 第二 -> 2
    <<<<"di", "san">>, 3>>,   \* 第三 -> 3
    <<<<"di", "si">>, 4>>,   \* 第四 -> 4
    <<<<"di", "wu">>, 5>>,   \* 第五 -> 5
    <<<<"di", "liu">>, 6>>,   \* 第六 -> 6
    <<<<"di", "qi">>, 7>>,   \* 第七 -> 7
    <<<<"di", "ba">>, 8>>,   \* 第八 -> 8
    <<<<"di", "jiu">>, 9>>,   \* 第九 -> 9
    <<<<"di", "shi">>, 10>>,   \* 第十 -> 10
    <<<<"shi", "yi">>, 11>>,   \* 十一 -> 11
    <<<<"shi", "er">>, 12>>,   \* 十二 -> 12
    <<<<"shi", "san">>, 13>>,   \* 十三 -> 13
    <<<<"shi", "si">>, 14>>,   \* 十四 -> 14
    <<<<"shi", "wu">>, 15>>,   \* 十五 -> 15
    <<<<"shi", "liu">>, 16>>,   \* 十六 -> 16
    <<<<"shi", "qi">>, 17>>,   \* 十七 -> 17
    <<<<"shi", "ba">>, 18>>,   \* 十八 -> 18
    <<<<"shi", "jiu">>, 19>>,   \* 十九 -> 19
    <<<<"er", "shi">>, 20>> >>   \* 二十 -> 20

\* _extract_selection_index patterns (l.2216-2229)
selection_index_patterns == <<
    \* 第([一二三四五六七八九十]+)条
    Cat(<<Lit(<<"di">>), Grp(Plus(Cls({"yi", "er", "san", "si", "wu", "liu", "qi", "ba", "jiu", "shi"}))), Lit(<<"tiao">>)>>),
    \* 第([一二三四五六七八九十]+)个
    Cat(<<Lit(<<"di">>), Grp(Plus(Cls({"yi", "er", "san", "si", "wu", "liu", "qi", "ba", "jiu", "shi"}))), Lit(<<"ge">>)>>),
    \* ([一二三四五六七八九十]+)条
    Cat(<<Grp(Plus(Cls({"yi", "er", "san", "si", "wu", "liu", "qi", "ba", "jiu", "shi"}))), Lit(<<"tiao">>)>>),
    \* ([一二三四五六七八九十]+)个
    Cat(<<Grp(Plus(Cls({"yi", "er", "san", "si", "wu", "liu", "qi", "ba", "jiu", "shi"}))), Lit(<<"ge">>)>>),
    \* 选择第([一二三四五六七八九十]+)条
    Cat(<<Lit(<<"xuan", "ze", "di">>), Grp(Plus(Cls({"yi", "er", "san", "si", "wu", "liu", "qi", "ba", "jiu", "shi"}))), Lit(<<"tiao">>)>>),
    \* 选择第([一二三四五六七八九十]+)个
    Cat(<<Lit(<<"xuan", "ze", "di">>), Grp(Plus(Cls({"yi", "er", "san", "si", "wu", "liu", "qi", "ba", "jiu", "shi"}))), Lit(<<"ge">>)>>),
    \* 第(\d+)条
    Cat(<<Lit(<<"di">>), Grp(Plus(Digit)), Lit(<<"tiao">>)>>),
    \* 第(\d+)个
    Cat(<<Lit(<<"di">>), Grp(Plus(Digit)), Lit(<<"ge">>)>>),
    \* 选择第(\d+)条
    Cat(<<Lit(<<"xuan", "ze", "di">>), Grp(Plus(Digit)), Lit(<<"tiao">>)>>),
    \* 选择第(\d+)个
    Cat(<<Lit(<<"xuan", "ze", "di">>), Grp(Plus(Digit)), Lit(<<"ge">>)>>),
    \* (\d+)条
    Cat(<<Grp(Plus(Digit)), Lit(<<"tiao">>)>>),
    \* (\d+)个
    Cat(<<Grp(Plus(Digit)), Lit(<<"ge">>)>>) >>

\* the loop over patterns of _extract_selection_index, from pattern k on: the
\* first pattern whose group 1 is a table key or a digit string decides
RECURSIVE SelectionIndexFrom(_, _)
SelectionIndexFrom(text, k) ==
    IF k > Len(selection_index_patterns) THEN None
    ELSE LET m == RxSearch(selection_index_patterns[k], text)
             number_str == Group1(text, m)
         IN  IF m.ok /\ DictHas(chinese_numbers, number_str)
             THEN Some(DictGet(chinese_numbers, number_str))
             ELSE IF m.ok /\ IsDigitStr(number_str)
             THEN Some(ToInt(number_str))
             ELSE SelectionIndexFrom(text, k + 1)

\* 第一条/第一个/首选 ... 第五条/第五个 (l.2240-2249)
simple_selection == <<
    << <<"di", "yi", "tiao">>, <<"di", "yi", "ge">>, <<"shou2", "xuan">> >>,
    << <<"di", "er", "tiao">>, <<"di", "er", "ge">> >>,
    << <<"di", "san", "tiao">>, <<"di", "san", "ge">> >>,
    << <<"di", "si", "tiao">>, <<"di", "si", "ge">> >>,
    << <<"di", "wu", "tiao">>, <<"di", "wu", "ge">> >> >>

\* the 1-based index, or None (the definition at l.2203, which is the one in effect)
_extract_selection_index(text) ==
    LET byPattern == SelectionIndexFrom(text, 1)
    IN  IF IsSome(byPattern) THEN byPattern
        ELSE IF \E n \in 1..5 : HasAny(text, simple_selection[n])
             THEN Some(CHOOSE n \in 1..5 :
                          /\ HasAny(text, simple_selection[n])
                          /\ \A j \in 1..(n - 1) : ~HasAny(text, simple_selection[j]))
             ELSE None

(***************************************************************************)
(* Column slot: CommandHandler._extract_column_number (the definition at    *)
(* l.2475, which is the one in effect)                                     *)
(***************************************************************************)
\* _extract_column_number chinese_to_digit (l.2482-2487)
chinese_to_digit == <<
    <<<<"yi">>, <<"1">>>>,   \* 一 -> 1
    <<<<"er">>, <<"2">>>>,   \* 二 -> 2
    <<<<"liang">>, <<"2">>>>,   \* 两 -> 2
    <<<<"san">>, <<"3">>>>,   \* 三 -> 3
    <<<<"si">>, <<"4">>>>,   \* 四 -> 4
    <<<<"wu">>, <<"5">>>>,   \* 五 -> 5
    <<<<"liu">>, <<"6">>>>,   \* 六 -> 6
    <<<<"qi">>, <<"7">>>>,   \* 七 -> 7
    <<<<"ba">>, <<"8">>>>,   \* 八 -> 8
    <<<<"jiu">>, <<"9">>>>,   \* 九 -> 9
    <<<<"shi">>, <<"1", "0">>>>,   \* 十 -> 10
    <<<<"shi", "yi">>, <<"1", "1">>>>,   \* 十一 -> 11
    <<<<"shi", "er">>, <<"1", "2">>>>,   \* 十二 -> 12
    <<<<"shi", "san">>, <<"1", "3">>>>,   \* 十三 -> 13
    <<<<"shi", "si">>, <<"1", "4">>>>,   \* 十四 -> 14
    <<<<"shi", "wu">>, <<"1", "5">>>>,   \* 十五 -> 15
    <<<<"shi", "liu">>, <<"1", "6">>>>,   \* 十六 -> 16
    <<<<"shi", "qi">>, <<"1", "7">>>>,   \* 十七 -> 17
    <<<<"shi", "ba">>, <<"1", "8">>>>,   \* 十八 -> 18
    <<<<"shi", "jiu">>, <<"1", "9">>>>,   \* 十九 -> 19
    <<<<"er", "shi">>, <<"2", "0">>>> >>   \* 二十 -> 20

\* _extract_column_number patterns (l.2490-2505)
column_patterns == <<
    \* 第([一二两三四五六七八九十]+)[列柜箱相贵]
    Cat(<<Lit(<<"di">>), Grp(Plus(Cls({"yi", "er", "liang", "san", "si", "wu", "liu", "qi", "ba", "jiu", "shi"}))), Cls({"lie", "gui", "xiang", "xiang2", "gui2"})>>),
    \* ([一二两三四五六七八九十]+)[列柜箱相贵]
    Cat(<<Grp(Plus(Cls({"yi", "er", "liang", "san", "si", "wu", "liu", "qi", "ba", "jiu", "shi"}))), Cls({"lie", "gui", "xiang", "xiang2", "gui2"})>>),
    \* 第(\d+)[列柜箱相贵]
    Cat(<<Lit(<<"di">>), Grp(Plus(Digit)), Cls({"lie", "gui", "xiang", "xiang2", "gui2"})>>),
    \* (\d+)[列柜箱相贵]
    Cat(<<Grp(Plus(Digit)), Cls({"lie", "gui", "xiang", "xiang2", "gui2"})>>),
    \* 第([一二两三四五六七八九十]+)号
    Cat(<<Lit(<<"di">>), Grp(Plus(Cls({"yi", "er", "liang", "san", "si", "wu", "liu", "qi", "ba", "jiu", "shi"}))), Lit(<<"hao">>)>>),
    \* ([一二两三四五六七八九十]+)号
    Cat(<<Grp(Plus(Cls({"yi", "er", "liang", "san", "si", "wu", "liu", "qi", "ba", "jiu", "shi"}))), Lit(<<"hao">>)>>),
    \* 第(\d+)号
    Cat(<<Lit(<<"di">>), Grp(Plus(Digit)), Lit(<<"hao">>)>>),
    \* (\d+)号
    Cat(<<Grp(Plus(Digit)), Lit(<<"hao">>)>>),
    \* 打开([一二两三四五六七八九十]+)
    Cat(<<Lit(<<"da", "kai">>), Grp(Plus(Cls({"yi", "er", "liang", "san", "si", "wu", "liu", "qi", "ba", "jiu", "shi"})))>>),
    \* 打开(\d+)
    Cat(<<Lit(<<"da", "kai">>), Grp(Plus(Digit))>>),
    \* 开([一二两三四五六七八九十]+)
    Cat(<<Lit(<<"kai">>), Grp(Plus(Cls({"yi", "er", "liang", "san", "si", "wu", "liu", "qi", "ba", "jiu", "shi"})))>>),
    \* 开(\d+)
    Cat(<<Lit(<<"kai">>), Grp(Plus(Digit))>>),
    \* 第([一二两三四五六七八九十]+)
    Cat(<<Lit(<<"di">>), Grp(Plus(Cls({"yi", "er", "liang", "san", "si", "wu", "liu", "qi", "ba", "jiu", "shi"})))>>),
    \* 第(\d+)
    Cat(<<Lit(<<"di">>), Grp(Plus(Digit))>>) >>


\* text.replace("相子", "柜子").replace("箱子", "柜子").replace("贵子", "柜子")
column_typos == <<
    << <<"xiang2", "zi">>, <<"gui", "zi">> >>,
    << <<"xiang", "zi">>, <<"gui", "zi">> >>,
    << <<"gui2", "zi">>, <<"gui", "zi">> >> >>

\* [一二两三四五六七八九十\d]+
loose_numeral ==
    Plus(Cls({"yi", "er", "liang", "san", "si", "wu", "liu", "qi", "ba", "jiu", "shi"}
             \cup DigitChars))

\* the numeral a matched string stands for: a table value, the digits, or None
ColumnOfNumeral(number_str) ==
    IF DictHas(chinese_to_digit, number_str)
    THEN Some(DictGet(chinese_to_digit, number_str))
    ELSE IF IsDigitStr(number_str) THEN Some(number_str)
    ELSE None

\* the loop over patterns, from pattern k on
RECURSIVE ColumnFrom(_, _)
ColumnFrom(text, k) ==
    IF k > Len(column_patterns) THEN None
    ELSE LET m == RxSearch(column_patterns[k], text)
             found == IF m.ok THEN ColumnOfNumeral(Group1(text, m)) ELSE None
         IN  IF IsSome(found) THEN found ELSE ColumnFrom(text, k + 1)

\* the column as a digit string, or None
_extract_column_number(text0) ==
    LET text == ReplaceEach(text0, column_typos, 1)
        column_found == ColumnFrom(text, 1)
        digit_match == RxSearch(loose_numeral, text)
    IN  IF IsSome(column_found) THEN column_found
        ELSE IF digit_match.ok THEN ColumnOfNumeral(Group0(text, digit_match))
        ELSE None

(***************************************************************************)
(* Archive queries: _is_archive_query_by_name, _extract_archive_query_value *)
(***************************************************************************)
\* str.strip()
RECURSIVE LStrip(_)
LStrip(t) == IF Len(t) > 0 /\ IsSpaceCh(t[1]) THEN LStrip(Tail(t)) ELSE t
RECURSIVE RStrip(_)
RStrip(t) ==
    IF Len(t) > 0 /\ IsSpaceCh(t[Len(t)]) THEN RStrip(SubSeq(t, 1, Len(t) - 1)) ELSE t
Strip(t) == LStrip(RStrip(t))

\* re.findall(r, t): the matched texts, left to right, not overlapping
RECURSIVE FindAllFrom(_, _, _)
FindAllFrom(r, t, i) ==
    LET m == RxSearchFrom(r, t, i)
    IN  IF ~m.ok THEN <<>>
        ELSE <<Group0(t, m)>> \o FindAllFrom(r, t, IF m.e > m.s THEN m.e ELSE m.e + 1)
FindAll(r, t) == FindAllFrom(r, t, 1)

\* max(xs, key=len): the first of the longest
Longest(xs) ==
    xs[CHOOSE k \in 1..Len(xs) :
          /\ \A j \in 1..Len(xs) : Len(xs[j]) <= Len(xs[k])
          /\ \A j \in 1..(k - 1) : Len(xs[j]) < Len(xs[k])]

\* _is_archive_query_by_name archive_patterns (l.1140-1161)
archive_patterns == <<
    \* 查\s*(?:询)?\s*(?:一下)?\s*档案名称为\s*(.+?)\s*的\s*(?:档案)?
    Cat(<<Lit(<<"cha">>), Star(Space), Opt(Lit(<<"xun">>)), Star(Space), Opt(Lit(<<"yi", "xia">>)), Star(Space), Lit(<<"dang", "an", "ming", "cheng2", "wei2">>), Star(Space), Grp(LazyPlus(AnyCh)), Star(Space), Lit(<<"de">>), Star(Space), Opt(Lit(<<"dang", "an">>))>>),
    \* 查\s*(?:询|找)?\s*(?:一下)?\s*(.+?)\s*的\s*档案
    Cat(<<Lit(<<"cha">>), Star(Space), Opt(Cls({"xun", "zhao"})), Star(Space), Opt(Lit(<<"yi", "xia">>)), Star(Space), Grp(LazyPlus(AnyCh)), Star(Space), Lit(<<"de">>), Star(Space), Lit(<<"dang", "an">>)>>),
    \* 我\s*(?:想|想要|要)\s*查\s*(?:询|找)?\s*(?:一下)?\s*(.+?)\s*的\s*档案
    Cat(<<Lit(<<"wo">>), Star(Space), Alt(<<Lit(<<"xiang4">>), Lit(<<"xiang4", "yao">>), Lit(<<"yao">>)>>), Star(Space), Lit(<<"cha">>), Star(Space), Opt(Cls({"xun", "zhao"})), Star(Space), Opt(Lit(<<"yi", "xia">>)), Star(Space), Grp(LazyPlus(AnyCh)), Star(Space), Lit(<<"de">>), Star(Space), Lit(<<"dang", "an">>)>>),
    \* 查\s*(.+?)\s*的?\s*信息
    Cat(<<Lit(<<"cha">>), Star(Space), Grp(LazyPlus(AnyCh)), Star(Space), Opt(Lit(<<"de">>)), Star(Space), Lit(<<"xin", "xi2">>)>>),
    \* 查\s*(.+?)\s*的?\s*资料
    Cat(<<Lit(<<"cha">>), Star(Space), Grp(LazyPlus(AnyCh)), Star(Space), Opt(Lit(<<"de">>)), Star(Space), Lit(<<"zi2", "liao2">>)>>),
    \* 找\s*(.+?)\s*的?\s*档案
    Cat(<<Lit(<<"zhao">>), Star(Space), Grp(LazyPlus(AnyCh)), Star(Space), Opt(Lit(<<"de">>)), Star(Space), Lit(<<"dang", "an">>)>>),
    \* 搜索\s*(.+?)\s*的?\s*档案
    Cat(<<Lit(<<"sou", "suo">>), Star(Space), Grp(LazyPlus(AnyCh)), Star(Space), Opt(Lit(<<"de">>)), Star(Space), Lit(<<"dang", "an">>)>>),
    \* 显示\s*(.+?)\s*的?\s*信息
    Cat(<<Lit(<<"xian", "shi3">>), Star(Space), Grp(LazyPlus(AnyCh)), Star(Space), Opt(Lit(<<"de">>)), Star(Space), Lit(<<"xin", "xi2">>)>>),
    \* 显示\s*(.+?)\s*的?\s*档案
    Cat(<<Lit(<<"xian", "shi3">>), Star(Space), Grp(LazyPlus(AnyCh)), Star(Space), Opt(Lit(<<"de">>)), Star(Space), Lit(<<"dang", "an">>)>>),
    \* 查看\s*(.+?)\s*的?\s*档案
    Cat(<<Lit(<<"cha", "kan">>), Star(Space), Grp(LazyPlus(AnyCh)), Star(Space), Opt(Lit(<<"de">>)), Star(Space), Lit(<<"dang", "an">>)>>),
    \* 查询\s*(.+?)\s*的?\s*档案
    Cat(<<Lit(<<"cha", "xun">>), Star(Space), Grp(LazyPlus(AnyCh)), Star(Space), Opt(Lit(<<"de">>)), Star(Space), Lit(<<"dang", "an">>)>>),
    \* 查找\s*(.+?)\s*的?\s*档案
    Cat(<<Lit(<<"cha", "zhao">>), Star(Space), Grp(LazyPlus(AnyCh)), Star(Space), Opt(Lit(<<"de">>)), Star(Space), Lit(<<"dang", "an">>)>>),
    \* 查\s*(?:询)?\s*(?:一下)?\s*档案编号为\s*(.+?)\s*的\s*(?:档案)?
    Cat(<<Lit(<<"cha">>), Star(Space), Opt(Lit(<<"xun">>)), Star(Space), Opt(Lit(<<"yi", "xia">>)), Star(Space), Lit(<<"dang", "an", "bian", "hao", "wei2">>), Star(Space), Grp(LazyPlus(AnyCh)), Star(Space), Lit(<<"de">>), Star(Space), Opt(Lit(<<"dang", "an">>))>>),
    \* 查\s*(?:询|找)?\s*(?:一下)?\s*编号\s*(.+?)\s*的\s*档案
    Cat(<<Lit(<<"cha">>), Star(Space), Opt(Cls({"xun", "zhao"})), Star(Space), Opt(Lit(<<"yi", "xia">>)), Star(Space), Lit(<<"bian", "hao">>), Star(Space), Grp(LazyPlus(AnyCh)), Star(Space), Lit(<<"de">>), Star(Space), Lit(<<"dang", "an">>)>>),
    \* 查\s*(?:询|找)?\s*(?:一下)?\s*编号\s*[:：]?\s*(.+?)\s*(?:的档案)?
    Cat(<<Lit(<<"cha">>), Star(Space), Opt(Cls({"xun", "zhao"})), Star(Space), Opt(Lit(<<"yi", "xia">>)), Star(Space), Lit(<<"bian", "hao">>), Star(Space), Opt(Cls({":", "colon2"})), Star(Space), Grp(LazyPlus(AnyCh)), Star(Space), Opt(Lit(<<"de", "dang", "an">>))>>),
    \* 编号\s*(.+?)\s*的\s*档案
    Cat(<<Lit(<<"bian", "hao">>), Star(Space), Grp(LazyPlus(AnyCh)), Star(Space), Lit(<<"de">>), Star(Space), Lit(<<"dang", "an">>)>>),
    \* 编号\s*[:：]?\s*(.+?)\s*的档案
    Cat(<<Lit(<<"bian", "hao">>), Star(Space), Opt(Cls({":", "colon2"})), Star(Space), Grp(LazyPlus(AnyCh)), Star(Space), Lit(<<"de", "dang", "an">>)>>) >>

\* _is_archive_query_by_name archive_keywords (l.1177): 查询 查找 搜索 查一下 找一下 查 显示 查看
archive_keywords == <<
    <<"cha", "xun">>, <<"cha", "zhao">>, <<"sou", "suo">>, <<"cha", "yi", "xia">>,
    <<"zhao", "yi", "xia">>, <<"cha">>, <<"xian", "shi3">>, <<"cha", "kan">> >>

\* _is_archive_query_by_name info_keywords (l.1178): 档案 信息 资料 记录
info_keywords == <<
    <<"dang", "an">>, <<"xin", "xi2">>, <<"zi2", "liao2">>, <<"ji", "lu">> >>

\* 编号\s*[:：]?\s*(\S+)  (l.1186)
archive_code_pattern ==
    Cat(<<Lit(<<"bian", "hao">>), Star(Space), Opt(Cls({":", "colon2"})), Star(Space), Grp(Plus(NonSpace))>>)

\* 查[询找]?(.+?)(?:的?[档案信息资料])  (l.1194)
archive_name_pattern ==
    Cat(<<Lit(<<"cha">>), Opt(Cls({"xun", "zhao"})), Grp(LazyPlus(AnyCh)), Opt(Lit(<<"de">>)), Cls({"dang", "an", "xin", "xi2", "zi2", "liao2"})>>)

\* _is_archive_query_by_name code_formats (l.1207-1211)
code_formats == <<
    \* [A-Za-z0-9]+[-_][A-Za-z0-9]+
    Cat(<<Plus(Cls(UpperSet \cup LowerSet \cup DigitChars)), Cls({"-", "_"}), Plus(Cls(UpperSet \cup LowerSet \cup DigitChars))>>),
    \* [A-Za-z]{2,}\d+
    Cat(<<Rep(Cls(UpperSet \cup LowerSet), 2, RxInf), Plus(Digit)>>),
    \* \d{4}[-_]\d{3}
    Cat(<<Rep(Digit, 4, 4), Cls({"-", "_"}), Rep(Digit, 3, 3)>>) >>

query_words == << <<"cha", "xun">>, <<"cha">> >>      \* '查询' in t or '查' in t

_is_archive_query_by_name(text) ==
    IF Len(text) = 0 THEN FALSE
    ELSE
    LET cleaned_text == _clean_text(text)
        has_archive_keyword == HasAny(cleaned_text, archive_keywords)
        has_info_keyword == HasAny(cleaned_text, info_keywords)
        code_match == RxSearch(archive_code_pattern, cleaned_text)
        name_match == RxSearch(archive_name_pattern, cleaned_text)
    IN  \/ AnySearch(archive_patterns, text)
        \/ /\ has_archive_keyword
           /\ has_info_keyword
           /\ \/ code_match.ok /\ Len(Strip(Group1(cleaned_text, code_match))) > 0
              \/ name_match.ok /\ Len(Strip(Group1(cleaned_text, name_match))) >= 2
        \/ /\ HasAny(cleaned_text, query_words)
           /\ AnySearch(code_formats, cleaned_text)
        \/ /\ has_archive_keyword
           /\ Len(cleaned_text) <= 15
           /\ \E k \in 1..Len(archive_keywords) :
                 /\ Has(cleaned_text, archive_keywords[k])
                 /\ Len(Strip(Replace(cleaned_text, archive_keywords[k], <<>>))) >= 2

\* _extract_archive_query_value code_patterns (l.1291-1301)
code_patterns == <<
    \* 档案编号为\s*(.+?)\s*的
    Cat(<<Lit(<<"dang", "an", "bian", "hao", "wei2">>), Star(Space), Grp(LazyPlus(AnyCh)), Star(Space), Lit(<<"de">>)>>),
    \* 编号为\s*(.+?)\s*的档案
    Cat(<<Lit(<<"bian", "hao", "wei2">>), Star(Space), Grp(LazyPlus(AnyCh)), Star(Space), Lit(<<"de", "dang", "an">>)>>),
    \* 编号\s*(.+?)\s*的档案
    Cat(<<Lit(<<"bian", "hao">>), Star(Space), Grp(LazyPlus(AnyCh)), Star(Space), Lit(<<"de", "dang", "an">>)>>),
    \* 编号\s*[:：]?\s*(.+?)\s*的档案
    Cat(<<Lit(<<"bian", "hao">>), Star(Space), Opt(Cls({":", "colon2"})), Star(Space), Grp(LazyPlus(AnyCh)), Star(Space), Lit(<<"de", "dang", "an">>)>>),
    \* 查.*?编号\s*[:：]?\s*(.+)
    Cat(<<Lit(<<"cha">>), LazyStar(AnyCh), Lit(<<"bian", "hao">>), Star(Space), Opt(Cls({":", "colon2"})), Star(Space), Grp(Plus(AnyCh))>>),
    \* 编号为\s*(\w+)\s*档案
    Cat(<<Lit(<<"bian", "hao", "wei2">>), Star(Space), Grp(Plus(Word)), Star(Space), Lit(<<"dang", "an">>)>>),
    \* 编号\s*为\s*(\w+)
    Cat(<<Lit(<<"bian", "hao">>), Star(Space), Lit(<<"wei2">>), Star(Space), Grp(Plus(Word))>>),
    \* 编号\s*(\w+)
    Cat(<<Lit(<<"bian", "hao">>), Star(Space), Grp(Plus(Word))>>) >>

\* \b(\d{3,})\b  (l.1323)
number_pattern ==
    Cat(<<Wb, Grp(Rep(Digit, 3, RxInf)), Wb>>)

\* (\d+)  (l.1333)
any_number_pattern ==
    Grp(Plus(Digit))

\* _extract_archive_query_value name_patterns (l.1347-1352)
name_patterns == <<
    \* 档案名称为\s*(.+?)\s*的
    Cat(<<Lit(<<"dang", "an", "ming", "cheng2", "wei2">>), Star(Space), Grp(LazyPlus(AnyCh)), Star(Space), Lit(<<"de">>)>>),
    \* 查\s*(?:询|找)?\s*(?:一下)?\s*(.+?)\s*的\s*档案
    Cat(<<Lit(<<"cha">>), Star(Space), Opt(Cls({"xun", "zhao"})), Star(Space), Opt(Lit(<<"yi", "xia">>)), Star(Space), Grp(LazyPlus(AnyCh)), Star(Space), Lit(<<"de">>), Star(Space), Lit(<<"dang", "an">>)>>),
    \* 我\s*(?:想|想要|要)\s*查\s*(?:询|找)?\s*(?:一下)?\s*(.+?)\s*的\s*档案
    Cat(<<Lit(<<"wo">>), Star(Space), Alt(<<Lit(<<"xiang4">>), Lit(<<"xiang4", "yao">>), Lit(<<"yao">>)>>), Star(Space), Lit(<<"cha">>), Star(Space), Opt(Cls({"xun", "zhao"})), Star(Space), Opt(Lit(<<"yi", "xia">>)), Star(Space), Grp(LazyPlus(AnyCh)), Star(Space), Lit(<<"de">>), Star(Space), Lit(<<"dang", "an">>)>>),
    \* 查\s*(.+?)\s*的?\s*(?:信息|资料|档案)
    Cat(<<Lit(<<"cha">>), Star(Space), Grp(LazyPlus(AnyCh)), Star(Space), Opt(Lit(<<"de">>)), Star(Space), Alt(<<Lit(<<"xin", "xi2">>), Lit(<<"zi2", "liao2">>), Lit(<<"dang", "an">>)>>)>>) >>

\* _extract_archive_query_value query_prefixes (l.1367): 查询 查一下 查找 搜索 查 找 编号 档案编号
query_prefixes == <<
    <<"cha", "xun">>, <<"cha", "yi", "xia">>, <<"cha", "zhao">>, <<"sou", "suo">>,
    <<"cha">>, <<"zhao">>, <<"bian", "hao">>, <<"dang", "an", "bian", "hao">> >>

\* _extract_archive_query_value query_suffixes (l.1375): 的档案 档案 的信息 的资料 为 呃 干
query_suffixes == <<
    <<"de", "dang", "an">>, <<"dang", "an">>, <<"de", "xin", "xi2">>, <<"de", "zi2", "liao2">>,
    <<"wei2">>, <<"e2">>, <<"gan">> >>

\* re.sub(r'[档案呃干为。，、]', '', s)
noise_chars == {"dang", "an", "e2", "gan", "wei2", "period2", "comma2", "dun"}
StripNoise(s) == SelectSeq(s, LAMBDA c : c \notin noise_chars)

\* the loop over code_patterns from pattern k on: the first pattern with a
\* non-blank group decides; the longest digit run of the group is preferred
RECURSIVE CodeFrom(_, _)
CodeFrom(text, k) ==
    IF k > Len(code_patterns) THEN None
    ELSE LET m == RxSearch(code_patterns[k], text)
             code == IF m.ok THEN StripNoise(Strip(Group1(text, m))) ELSE <<>>
             numbers == FindAll(any_number_pattern, code)
         IN  IF m.ok /\ Len(Strip(Group1(text, m))) > 0
             THEN IF Len(numbers) > 0 THEN Some(Longest(numbers)) ELSE Some(code)
             ELSE CodeFrom(text, k + 1)

\* the loop over name_patterns from pattern k on
RECURSIVE NameFrom(_, _)
NameFrom(text, k) ==
    IF k > Len(name_patterns) THEN None
    ELSE LET m == RxSearch(name_patterns[k], text)
             name == IF m.ok THEN StripNoise(Strip(Group1(text, m))) ELSE <<>>
         IN  IF m.ok /\ Len(Strip(Group1(text, m))) > 0 /\ Len(name) >= 2
             THEN Some(name)
             ELSE NameFrom(text, k + 1)

\* the first prefix the text starts with is cut off
RECURSIVE CutPrefix(_, _)
CutPrefix(t, k) ==
    IF k > Len(query_prefixes) THEN t
    ELSE IF StartsWith(t, query_prefixes[k])
         THEN Drop(t, Len(query_prefixes[k]) + 1)
         ELSE CutPrefix(t, k + 1)

\* every suffix the text ends with is cut off, in table order
RECURSIVE CutSuffixes(_, _)
CutSuffixes(t, k) ==
    IF k > Len(query_suffixes) THEN t
    ELSE CutSuffixes(IF EndsWith(t, query_suffixes[k])
                     THEN SubSeq(t, 1, Len(t) - Len(query_suffixes[k]))
                     ELSE t, k + 1)

\* the query value (a name or a code), or None
_extract_archive_query_value(text_with_spaces, cleaned_text) ==
    LET byCode == CodeFrom(text_with_spaces, 1)
        number_matches == FindAll(number_pattern, text_with_spaces)
        any_number_matches == FindAll(any_number_pattern, text_with_spaces)
        byName == NameFrom(text_with_spaces, 1)
        remaining_text == Strip(CutSuffixes(CutPrefix(cleaned_text, 1), 1))
        numbers_in_remaining == FindAll(any_number_pattern, remaining_text)
    IN  IF IsSome(byCode) THEN byCode
        ELSE IF Len(number_matches) > 0 THEN Some(Longest(number_matches))
        ELSE IF Len(any_number_matches) > 0 THEN Some(Longest(any_number_matches))
        ELSE IF IsSome(byName) THEN byName
        ELSE IF Len(remaining_text) = 0 THEN None
        ELSE IF Len(numbers_in_remaining) > 0 THEN Some(Longest(numbers_in_remaining))
        ELSE Some(remaining_text)

(***************************************************************************)
(* Explicit device-control detection: _is_explicit_device_control (the      *)
(* definition at l.896, which is the one in effect)                        *)
(***************************************************************************)
\* _is_explicit_device_control explicit_patterns (l.902-985)
explicit_patterns == <<
    \* 打开第?[一二两三四五六七八九十\d]+列?柜子
    Cat(<<Lit(<<"da", "kai">>), Opt(Lit(<<"di">>)), Plus(Cls({"yi", "er", "liang", "san", "si", "wu", "liu", "qi", "ba", "jiu", "shi"} \cup DigitChars)), Opt(Lit(<<"lie">>)), Lit(<<"gui", "zi">>)>>),
    \* 打开柜子
    Lit(<<"da", "kai", "gui", "zi">>),
    \* 开启柜子
    Lit(<<"kai", "qi2", "gui", "zi">>),
    \* 启动柜子
    Lit(<<"qi2", "dong", "gui", "zi">>),
    \* 打开第?[一二两三四五六七八九十\d]+列?
    Cat(<<Lit(<<"da", "kai">>), Opt(Lit(<<"di">>)), Plus(Cls({"yi", "er", "liang", "san", "si", "wu", "liu", "qi", "ba", "jiu", "shi"} \cup DigitChars)), Opt(Lit(<<"lie">>))>>),
    \* 打开第?[一二两三四五六七八九十\d]+
    Cat(<<Lit(<<"da", "kai">>), Opt(Lit(<<"di">>)), Plus(Cls({"yi", "er", "liang", "san", "si", "wu", "liu", "qi", "ba", "jiu", "shi"} \cup DigitChars))>>),
    \* 关闭第?[一二两三四五六七八九十\d]+列?柜子
    Cat(<<Lit(<<"guan", "bi">>), Opt(Lit(<<"di">>)), Plus(Cls({"yi", "er", "liang", "san", "si", "wu", "liu", "qi", "ba", "jiu", "shi"} \cup DigitChars)), Opt(Lit(<<"lie">>)), Lit(<<"gui", "zi">>)>>),
    \* 关闭柜子
    Lit(<<"guan", "bi", "gui", "zi">>),
    \* 关柜子
    Lit(<<"guan", "gui", "zi">>),
    \* 关掉柜子
    Lit(<<"guan", "diao", "gui", "zi">>),
    \* 打开通风
    Lit(<<"da", "kai", "tong2", "feng">>),
    \* 开启通风
    Lit(<<"kai", "qi2", "tong2", "feng">>),
    \* 关闭通风
    Lit(<<"guan", "bi", "tong2", "feng">>),
    \* 关通风
    Lit(<<"guan", "tong2", "feng">>),
    \* 打开?空调
    Cat(<<Lit(<<"da">>), Opt(Lit(<<"kai">>)), Lit(<<"kong", "tiao2">>)>>),
    \* 关闭?空调
    Cat(<<Lit(<<"guan">>), Opt(Lit(<<"bi">>)), Lit(<<"kong", "tiao2">>)>>),
    \* 空调开机
    Lit(<<"kong", "tiao2", "kai", "ji2">>),
    \* 空调关机
    Lit(<<"kong", "tiao2", "guan", "ji2">>),
    \* 空调制冷
    Lit(<<"kong", "tiao2", "zhi12", "leng">>),
    \* 空调制热
    Lit(<<"kong", "tiao2", "zhi12", "re">>),
    \* 空调除湿
    Lit(<<"kong", "tiao2", "chu2", "shi2">>),
    \* 制冷\d+度
    Cat(<<Lit(<<"zhi12", "leng">>), Plus(Digit), Lit(<<"du">>)>>),
    \* 制热\d+度
    Cat(<<Lit(<<"zhi12", "re">>), Plus(Digit), Lit(<<"du">>)>>),
    \* 除湿\d+度
    Cat(<<Lit(<<"chu2", "shi2">>), Plus(Digit), Lit(<<"du">>)>>),
    \* 空调调到\d+度
    Cat(<<Lit(<<"kong", "tiao2", "tiao2", "dao">>), Plus(Digit), Lit(<<"du">>)>>),
    \* 空调设置为\d+度
    Cat(<<Lit(<<"kong", "tiao2", "she", "zhi14", "wei2">>), Plus(Digit), Lit(<<"du">>)>>),
    \* 打开?加湿器
    Cat(<<Lit(<<"da">>), Opt(Lit(<<"kai">>)), Lit(<<"jia", "shi2", "qi4">>)>>),
    \* 关闭?加湿器
    Cat(<<Lit(<<"guan">>), Opt(Lit(<<"bi">>)), Lit(<<"jia", "shi2", "qi4">>)>>),
    \* 加湿器开机
    Lit(<<"jia", "shi2", "qi4", "kai", "ji2">>),
    \* 加湿器关机
    Lit(<<"jia", "shi2", "qi4", "guan", "ji2">>),
    \* 开启除湿
    Lit(<<"kai", "qi2", "chu2", "shi2">>),
    \* 关闭除湿
    Lit(<<"guan", "bi", "chu2", "shi2">>),
    \* 开启净化
    Lit(<<"kai", "qi2", "jing", "hua2">>),
    \* 关闭净化
    Lit(<<"guan", "bi", "jing", "hua2">>),
    \* 开启加湿
    Lit(<<"kai", "qi2", "jia", "shi2">>),
    \* 关闭加湿
    Lit(<<"guan", "bi", "jia", "shi2">>),
    \* 打开一体机
    Lit(<<"da", "kai", "yi", "ti2", "ji2">>),
    \* 关闭一体机
    Lit(<<"guan", "bi", "yi", "ti2", "ji2">>),
    \* 打开温湿度一体机
    Lit(<<"da", "kai", "wen", "shi2", "du", "yi", "ti2", "ji2">>),
    \* 关闭温湿度一体机
    Lit(<<"guan", "bi", "wen", "shi2", "du", "yi", "ti2", "ji2">>),
    \* 打开温度一体机
    Lit(<<"da", "kai", "wen", "du", "yi", "ti2", "ji2">>),
    \* 关闭温度一体机
    Lit(<<"guan", "bi", "wen", "du", "yi", "ti2", "ji2">>),
    \* 打开湿度一体机
    Lit(<<"da", "kai", "shi2", "du", "yi", "ti2", "ji2">>),
    \* 关闭湿度一体机
    Lit(<<"guan", "bi", "shi2", "du", "yi", "ti2", "ji2">>),
    \* 关闭?除鼠器
    Cat(<<Lit(<<"guan">>), Opt(Lit(<<"bi">>)), Lit(<<"chu2", "shu2", "qi4">>)>>),
    \* 除鼠器关闭
    Lit(<<"chu2", "shu2", "qi4", "guan", "bi">>),
    \* 除鼠器低频
    Lit(<<"chu2", "shu2", "qi4", "di2", "pin">>),
    \* 除鼠器高频
    Lit(<<"chu2", "shu2", "qi4", "gao", "pin">>),
    \* 打开除鼠器
    Lit(<<"da", "kai", "chu2", "shu2", "qi4">>),
    \* 打开除鼠设备
    Lit(<<"da", "kai", "chu2", "shu2", "she", "bei">>),
    \* 打开驱鼠设备
    Lit(<<"da", "kai", "qu", "shu2", "she", "bei">>),
    \* 低频模式
    Lit(<<"di2", "pin", "mo", "shi5">>),
    \* 高频模式
    Lit(<<"gao", "pin", "mo", "shi5">>),
    \* 总开关关闭
    Lit(<<"zong", "kai", "guan", "guan", "bi">>),
    \* 关闭?出除数
    Cat(<<Lit(<<"guan">>), Opt(Lit(<<"bi">>)), Lit(<<"chu", "chu2", "shu3">>)>>),
    \* 关闭?出鼠器
    Cat(<<Lit(<<"guan">>), Opt(Lit(<<"bi">>)), Lit(<<"chu", "shu2", "qi4">>)>>),
    \* 打开出除数
    Lit(<<"da", "kai", "chu", "chu2", "shu3">>),
    \* 打开出鼠器
    Lit(<<"da", "kai", "chu", "shu2", "qi4">>),
    \* 打开楚楚
    Lit(<<"da", "kai", "chu3", "chu3">>),
    \* 除鼠设备
    Lit(<<"chu2", "shu2", "she", "bei">>),
    \* 驱鼠设备
    Lit(<<"qu", "shu2", "she", "bei">>),
    \* 高品模式
    Lit(<<"gao", "pin2", "mo", "shi5">>),
    \* 高平模式
    Lit(<<"gao", "ping", "mo", "shi5">>),
    \* 低品模式
    Lit(<<"di2", "pin2", "mo", "shi5">>),
    \* 低平模式
    Lit(<<"di2", "ping", "mo", "shi5">>),
    \* 温度调到[一二两三四五六七八九十\d]+度
    Cat(<<Lit(<<"wen", "du", "tiao2", "dao">>), Plus(Cls({"yi", "er", "liang", "san", "si", "wu", "liu", "qi", "ba", "jiu", "shi"} \cup DigitChars)), Lit(<<"du">>)>>),
    \* 温度设置为[一二两三四五六七八九十\d]+度
    Cat(<<Lit(<<"wen", "du", "she", "zhi14", "wei2">>), Plus(Cls({"yi", "er", "liang", "san", "si", "wu", "liu", "qi", "ba", "jiu", "shi"} \cup DigitChars)), Lit(<<"du">>)>>),
    \* 调节温度到[一二两三四五六七八九十\d]+度
    Cat(<<Lit(<<"tiao2", "jie2", "wen", "du", "dao">>), Plus(Cls({"yi", "er", "liang", "san", "si", "wu", "liu", "qi", "ba", "jiu", "shi"} \cup DigitChars)), Lit(<<"du">>)>>),
    \* 查询状态
    Lit(<<"cha", "xun", "zhuang", "tai">>),
    \* 查看状态
    Lit(<<"cha", "kan", "zhuang", "tai">>),
    \* 状态查询
    Lit(<<"zhuang", "tai", "cha", "xun">>),
    \* 状态查看
    Lit(<<"zhuang", "tai", "cha", "kan">>) >>

_is_explicit_device_control(text) ==
    IF Len(text) = 0 THEN FALSE ELSE AnySearch(explicit_patterns, text)

(***************************************************************************)
(* Temperature slot: _extract_temperature                                  *)
(***************************************************************************)
\* _extract_temperature chinese_number_map (l.1943-1950)
chinese_number_map == <<
    <<<<"ling">>, <<"0">>>>,   \* 零 -> 0
    <<<<"yi">>, <<"1">>>>,   \* 一 -> 1
    <<<<"er">>, <<"2">>>>,   \* 二 -> 2
    <<<<"liang">>, <<"2">>>>,   \* 两 -> 2
    <<<<"san">>, <<"3">>>>,   \* 三 -> 3
    <<<<"si">>, <<"4">>>>,   \* 四 -> 4
    <<<<"wu">>, <<"5">>>>,   \* 五 -> 5
    <<<<"liu">>, <<"6">>>>,   \* 六 -> 6
    <<<<"qi">>, <<"7">>>>,   \* 七 -> 7
    <<<<"ba">>, <<"8">>>>,   \* 八 -> 8
    <<<<"jiu">>, <<"9">>>>,   \* 九 -> 9
    <<<<"shi">>, <<"1", "0">>>>,   \* 十 -> 10
    <<<<"shi", "yi">>, <<"1", "1">>>>,   \* 十一 -> 11
    <<<<"shi", "er">>, <<"1", "2">>>>,   \* 十二 -> 12
    <<<<"shi", "san">>, <<"1", "3">>>>,   \* 十三 -> 13
    <<<<"shi", "si">>, <<"1", "4">>>>,   \* 十四 -> 14
    <<<<"shi", "wu">>, <<"1", "5">>>>,   \* 十五 -> 15
    <<<<"shi", "liu">>, <<"1", "6">>>>,   \* 十六 -> 16
    <<<<"shi", "qi">>, <<"1", "7">>>>,   \* 十七 -> 17
    <<<<"shi", "ba">>, <<"1", "8">>>>,   \* 十八 -> 18
    <<<<"shi", "jiu">>, <<"1", "9">>>>,   \* 十九 -> 19
    <<<<"er", "shi">>, <<"2", "0">>>>,   \* 二十 -> 20
    <<<<"er", "shi", "yi">>, <<"2", "1">>>>,   \* 二十一 -> 21
    <<<<"er", "shi", "er">>, <<"2", "2">>>>,   \* 二十二 -> 22
    <<<<"er", "shi", "san">>, <<"2", "3">>>>,   \* 二十三 -> 23
    <<<<"er", "shi", "si">>, <<"2", "4">>>>,   \* 二十四 -> 24
    <<<<"er", "shi", "wu">>, <<"2", "5">>>>,   \* 二十五 -> 25
    <<<<"er", "shi", "liu">>, <<"2", "6">>>>,   \* 二十六 -> 26
    <<<<"er", "shi", "qi">>, <<"2", "7">>>>,   \* 二十七 -> 27
    <<<<"er", "shi", "ba">>, <<"2", "8">>>>,   \* 二十八 -> 28
    <<<<"er", "shi", "jiu">>, <<"2", "9">>>>,   \* 二十九 -> 29
    <<<<"san", "shi">>, <<"3", "0">>>> >>   \* 三十 -> 30

\* _extract_temperature patterns (l.1953-1960)
temperature_patterns == <<
    \* (\d+)度
    Cat(<<Grp(Plus(Digit)), Lit(<<"du">>)>>),
    \* (\d+)摄氏度
    Cat(<<Grp(Plus(Digit)), Lit(<<"she2", "shi6", "du">>)>>),
    \* (\d+)°
    Cat(<<Grp(Plus(Digit)), Lit(<<"deg">>)>>),
    \* ([零一二两三四五六七八九十]+)度
    Cat(<<Grp(Plus(Cls({"ling", "yi", "er", "liang", "san", "si", "wu", "liu", "qi", "ba", "jiu", "shi"}))), Lit(<<"du">>)>>),
    \* ([零一二两三四五六七八九十]+)摄氏度
    Cat(<<Grp(Plus(Cls({"ling", "yi", "er", "liang", "san", "si", "wu", "liu", "qi", "ba", "jiu", "shi"}))), Lit(<<"she2", "shi6", "du">>)>>),
    \* ([零一二两三四五六七八九十]+)°
    Cat(<<Grp(Plus(Cls({"ling", "yi", "er", "liang", "san", "si", "wu", "liu", "qi", "ba", "jiu", "shi"}))), Lit(<<"deg">>)>>) >>

\* [零一二两三四五六七八九十\d]+  (l.1977)
temperature_numeral ==
    Plus(Cls({"ling", "yi", "er", "liang", "san", "si", "wu", "liu", "qi", "ba", "jiu", "shi"} \cup DigitChars))

\* the value a matched numeral stands for, or None when it is neither a key
\* of chinese_number_map nor a digit string
TemperatureOfNumeral(number_str) ==
    IF DictHas(chinese_number_map, number_str)
    THEN Some(DictGet(chinese_number_map, number_str))
    ELSE IF IsDigitStr(number_str) THEN Some(number_str)
    ELSE None

\* the loop over patterns, from pattern k on
RECURSIVE TemperatureFrom(_, _)
TemperatureFrom(text, k) ==
    IF k > Len(temperature_patterns) THEN None
    ELSE LET m == RxSearch(temperature_patterns[k], text)
             found == IF m.ok THEN TemperatureOfNumeral(Group1(text, m)) ELSE None
         IN  IF IsSome(found) THEN found ELSE TemperatureFrom(text, k + 1)

\* the temperature as a digit string, or None
_extract_temperature(text) ==
    LET byPattern == TemperatureFrom(text, 1)
        digit_match == RxSearch(temperature_numeral, text)
    IN  IF IsSome(byPattern) THEN byPattern
        ELSE IF digit_match.ok THEN TemperatureOfNumeral(Group0(text, digit_match))
        ELSE None

(***************************************************************************)
(* Rodent-repeller homophones: _correct_rodent_repeller_text               *)
(***************************************************************************)
\* _correct_rodent_repeller_text rodent_corrections (l.666-839)
rodent_corrections == <<
    <<<<"chu", "chu2", "shu3">>, <<"chu2", "shu2", "qi4">>>>,   \* 出除数 -> 除鼠器
    <<<<"chu", "shu2", "qi4">>, <<"chu2", "shu2", "qi4">>>>,   \* 出鼠器 -> 除鼠器
    <<<<"u50a8", "shu2", "qi4">>, <<"chu2", "shu2", "qi4">>>>,   \* 储鼠器 -> 除鼠器
    <<<<"qu", "shu2", "qi4">>, <<"chu2", "shu2", "qi4">>>>,   \* 驱鼠器 -> 除鼠器
    <<<<"chu2", "shu2">>, <<"chu2", "shu2", "qi4">>>>,   \* 除鼠 -> 除鼠器
    <<<<"qu", "shu2">>, <<"chu2", "shu2", "qi4">>>>,   \* 驱鼠 -> 除鼠器
    <<<<"chu", "shu2">>, <<"chu2", "shu2", "qi4">>>>,   \* 出鼠 -> 除鼠器
    <<<<"chu2", "shu3">>, <<"chu2", "shu2">>>>,   \* 除数 -> 除鼠
    <<<<"u5904", "u6691">>, <<"chu2", "shu2", "qi4">>>>,   \* 处暑 -> 除鼠器
    <<<<"chu", "u4e66">>, <<"chu2", "shu2", "qi4">>>>,   \* 出书 -> 除鼠器
    <<<<"shu2", "qi4">>, <<"chu2", "shu2", "qi4">>>>,   \* 鼠器 -> 除鼠器
    <<<<"chu2", "shu2", "ji2">>, <<"chu2", "shu2", "qi4">>>>,   \* 除鼠机 -> 除鼠器
    <<<<"qu", "shu2", "ji2">>, <<"chu2", "shu2", "qi4">>>>,   \* 驱鼠机 -> 除鼠器
    <<<<"lao", "shu2", "qi4">>, <<"chu2", "shu2", "qi4">>>>,   \* 老鼠器 -> 除鼠器
    <<<<"u533a", "u5c5e">>, <<"chu2", "shu2", "qi4">>>>,   \* 区属 -> 除鼠器
    <<<<"u533a", "u5c5e", "qi4">>, <<"chu2", "shu2", "qi4">>>>,   \* 区属器 -> 除鼠器
    <<<<"u53d6", "shu3">>, <<"chu2", "shu2", "qi4">>>>,   \* 取数 -> 除鼠器
    <<<<"u53d6", "shu3", "qi4">>, <<"chu2", "shu2", "qi4">>>>,   \* 取数器 -> 除鼠器
    <<<<"u53d6", "u4e66">>, <<"chu2", "shu2", "qi4">>>>,   \* 取书 -> 除鼠器
    <<<<"u53d6", "u4e66", "qi4">>, <<"chu2", "shu2", "qi4">>>>,   \* 取书器 -> 除鼠器
    <<<<"u5904", "shu2">>, <<"chu2", "shu2", "qi4">>>>,   \* 处鼠 -> 除鼠器
    <<<<"u5904", "u6691", "qi4">>, <<"chu2", "shu2", "qi4">>>>,   \* 处暑器 -> 除鼠器
    <<<<"u50a8", "shu2">>, <<"chu2", "shu2", "qi4">>>>,   \* 储鼠 -> 除鼠器
    <<<<"u50a8", "shu2", "ji2">>, <<"chu2", "shu2", "qi4">>>>,   \* 储鼠机 -> 除鼠器
    <<<<"shu2">>, <<"chu2", "shu2", "qi4">>>>,   \* 鼠 -> 除鼠器
    <<<<"shu2", "she", "bei">>, <<"chu2", "shu2", "qi4">>>>,   \* 鼠设备 -> 除鼠器
    <<<<"shu2", "ji2">>, <<"chu2", "shu2", "qi4">>>>,   \* 鼠机 -> 除鼠器
    <<<<"lao", "shu2", "she", "bei">>, <<"chu2", "shu2", "qi4">>>>,   \* 老鼠设备 -> 除鼠器
    <<<<"u5927", "lao", "shu2", "qi4">>, <<"chu2", "shu2", "qi4">>>>,   \* 大老鼠器 -> 除鼠器
    <<<<"xiao", "lao", "shu2", "qi4">>, <<"chu2", "shu2", "qi4">>>>,   \* 小老鼠器 -> 除鼠器
    <<<<"u8017", "zi", "qi4">>, <<"chu2", "shu2", "qi4">>>>,   \* 耗子器 -> 除鼠器
    <<<<"da", "shu2", "qi4">>, <<"chu2", "shu2", "qi4">>>>,   \* 打鼠器 -> 除鼠器
    <<<<"u706d", "shu2", "qi4">>, <<"chu2", "shu2", "qi4">>>>,   \* 灭鼠器 -> 除鼠器
    <<<<"u9632", "shu2", "qi4">>, <<"chu2", "shu2", "qi4">>>>,   \* 防鼠器 -> 除鼠器
    <<<<"u6297", "shu2", "qi4">>, <<"chu2", "shu2", "qi4">>>>,   \* 抗鼠器 -> 除鼠器
    <<<<"chu3", "chu3">>, <<"chu2", "shu2", "qi4">>>>,   \* 楚楚 -> 除鼠器
    <<<<"chu3", "chu3", "qi4">>, <<"chu2", "shu2", "qi4">>>>,   \* 楚楚器 -> 除鼠器
    <<<<"u6811">>, <<"shu2">>>>,   \* 树 -> 鼠
    <<<<"shu3">>, <<"shu2">>>>,   \* 数 -> 鼠
    <<<<"u6811", "qi4">>, <<"chu2", "shu2", "qi4">>>>,   \* 树器 -> 除鼠器
    <<<<"shu3", "qi4">>, <<"chu2", "shu2", "qi4">>>>,   \* 数器 -> 除鼠器
    <<<<"da", "u6811">>, <<"da", "shu2">>>>,   \* 打树 -> 打鼠
    <<<<"da", "shu3">>, <<"da", "shu2">>>>,   \* 打数 -> 打鼠
    <<<<"kai", "u6811">>, <<"kai", "shu2">>>>,   \* 开树 -> 开鼠
    <<<<"kai", "shu3">>, <<"kai", "shu2">>>>,   \* 开数 -> 开鼠
    <<<<"kai", "u6811", "qi4">>, <<"kai", "chu2", "shu2", "qi4">>>>,   \* 开树器 -> 开除鼠器
    <<<<"kai", "shu3", "qi4">>, <<"kai", "chu2", "shu2", "qi4">>>>,   \* 开数器 -> 开除鼠器
    <<<<"kai", "lao", "shu2">>, <<"kai", "chu2", "shu2", "qi4">>>>,   \* 开老鼠 -> 开除鼠器
    <<<<"kai", "u5927", "lao", "shu2">>, <<"kai", "chu2", "shu2", "qi4">>>>,   \* 开大老鼠 -> 开除鼠器
    <<<<"kai", "xiao", "lao", "shu2">>, <<"kai", "chu2", "shu2", "qi4">>>>,   \* 开小老鼠 -> 开除鼠器
    <<<<"kai", "u8017", "zi">>, <<"kai", "chu2", "shu2", "qi4">>>>,   \* 开耗子 -> 开除鼠器
    <<<<"kai">>, <<"da", "kai">>>>,   \* 开 -> 打开
    <<<<"kai", "qi2">>, <<"da", "kai">>>>,   \* 开启 -> 打开
    <<<<"qi2", "dong">>, <<"da", "kai">>>>,   \* 启动 -> 打开
    <<<<"kai", "u8d77">>, <<"da", "kai">>>>,   \* 开起 -> 打开
    <<<<"kai", "dong">>, <<"da", "kai">>>>,   \* 开动 -> 打开
    <<<<"kai", "u59cb">>, <<"da", "kai">>>>,   \* 开始 -> 打开
    <<<<"kai", "guan">>, <<"da", "kai">>>>,   \* 开关 -> 打开
    <<<<"kai", "kai">>, <<"da", "kai">>>>,   \* 开开 -> 打开
    <<<<"kai", "le">>, <<"da", "kai">>>>,   \* 开了 -> 打开
    <<<<"kai", "u54af">>, <<"da", "kai">>>>,   \* 开咯 -> 打开
    <<<<"kai", "la">>, <<"da", "kai">>>>,   \* 开啦 -> 打开
    <<<<"kai", "ba3">>, <<"da", "kai">>>>,   \* 开吧 -> 打开
    <<<<"kai", "ma">>, <<"da", "kai">>>>,   \* 开嘛 -> 打开
    <<<<"kai", "ya">>, <<"da", "kai">>>>,   \* 开呀 -> 打开
    <<<<"kai", "o2">>, <<"da", "kai">>>>,   \* 开哦 -> 打开
    <<<<"u4ee3", "kai">>, <<"da", "kai">>>>,   \* 代开 -> 打开
    <<<<"u5927", "kai">>, <<"da", "kai">>>>,   \* 大开 -> 打开
    <<<<"u53bb", "shu2">>, <<"chu2", "shu2", "qi4">>>>,   \* 去鼠 -> 除鼠器
    <<<<"u533a", "shu2">>, <<"chu2", "shu2", "qi4">>>>,   \* 区鼠 -> 除鼠器
    <<<<"u66f2", "shu2">>, <<"chu2", "shu2", "qi4">>>>,   \* 曲鼠 -> 除鼠器
    <<<<"u5c48", "shu2">>, <<"chu2", "shu2", "qi4">>>>,   \* 屈鼠 -> 除鼠器
    <<<<"u77bf", "shu2">>, <<"chu2", "shu2", "qi4">>>>,   \* 瞿鼠 -> 除鼠器
    <<<<"u6e20", "shu2">>, <<"chu2", "shu2", "qi4">>>>,   \* 渠鼠 -> 除鼠器
    <<<<"u53d6", "shu2">>, <<"chu2", "shu2", "qi4">>>>,   \* 取鼠 -> 除鼠器
    <<<<"u8da3", "shu2">>, <<"chu2", "shu2", "qi4">>>>,   \* 趣鼠 -> 除鼠器
    <<<<"u8d8b", "shu2">>, <<"chu2", "shu2", "qi4">>>>,   \* 趋鼠 -> 除鼠器
    <<<<"u8eaf", "shu2">>, <<"chu2", "shu2", "qi4">>>>,   \* 躯鼠 -> 除鼠器
    <<<<"u5c5e">>, <<"shu2">>>>,   \* 属 -> 鼠
    <<<<"u8ff0">>, <<"shu2">>>>,   \* 述 -> 鼠
    <<<<"shu">>, <<"shu2">>>>,   \* 束 -> 鼠
    <<<<"u672f">>, <<"shu2">>>>,   \* 术 -> 鼠
    <<<<"u7f72">>, <<"shu2">>>>,   \* 署 -> 鼠
    <<<<"u8700">>, <<"shu2">>>>,   \* 蜀 -> 鼠
    <<<<"u85af">>, <<"shu2">>>>,   \* 薯 -> 鼠
    <<<<"u6691">>, <<"shu2">>>>,   \* 暑 -> 鼠
    <<<<"u4e66">>, <<"shu2">>>>,   \* 书 -> 鼠
    <<<<"u8212">>, <<"shu2">>>>,   \* 舒 -> 鼠
    <<<<"u68b3">>, <<"shu2">>>>,   \* 梳 -> 鼠
    <<<<"u758f">>, <<"shu2">>>>,   \* 疏 -> 鼠
    <<<<"u8f93">>, <<"shu2">>>>,   \* 输 -> 鼠
    <<<<"u53d4">>, <<"shu2">>>>,   \* 叔 -> 鼠
    <<<<"u6dd1">>, <<"shu2">>>>,   \* 淑 -> 鼠
    <<<<"u5b70">>, <<"shu2">>>>,   \* 孰 -> 鼠
    <<<<"u587e">>, <<"shu2">>>>,   \* 塾 -> 鼠
    <<<<"u8d4e">>, <<"shu2">>>>,   \* 赎 -> 鼠
    <<<<"u79eb">>, <<"shu2">>>>,   \* 秫 -> 鼠
    <<<<"u9ecd">>, <<"shu2">>>>,   \* 黍 -> 鼠
    <<<<"u5885">>, <<"shu2">>>>,   \* 墅 -> 鼠
    <<<<"u5eb6">>, <<"shu2">>>>,   \* 庶 -> 鼠
    <<<<"u6f31">>, <<"shu2">>>>,   \* 漱 -> 鼠
    <<<<"u6055">>, <<"shu2">>>>,   \* 恕 -> 鼠
    <<<<"u620d">>, <<"shu2">>>>,   \* 戍 -> 鼠
    <<<<"u6f8d">>, <<"shu2">>>>,   \* 澍 -> 鼠
    <<<<"u9265">>, <<"shu2">>>>,   \* 鉥 -> 鼠
    <<<<"u8167">>, <<"shu2">>>>,   \* 腧 -> 鼠
    <<<<"kai", "u5c5e">>, <<"kai", "shu2">>>>,   \* 开属 -> 开鼠
    <<<<"kai", "u8ff0">>, <<"kai", "shu2">>>>,   \* 开述 -> 开鼠
    <<<<"kai", "shu">>, <<"kai", "shu2">>>>,   \* 开束 -> 开鼠
    <<<<"kai", "u672f">>, <<"kai", "shu2">>>>,   \* 开术 -> 开鼠
    <<<<"kai", "u7f72">>, <<"kai", "shu2">>>>,   \* 开署 -> 开鼠
    <<<<"kai", "u8700">>, <<"kai", "shu2">>>>,   \* 开蜀 -> 开鼠
    <<<<"kai", "u85af">>, <<"kai", "shu2">>>>,   \* 开薯 -> 开鼠
    <<<<"kai", "u6691">>, <<"kai", "shu2">>>>,   \* 开暑 -> 开鼠
    <<<<"kai", "u4e66">>, <<"kai", "shu2">>>>,   \* 开书 -> 开鼠
    <<<<"kai", "u8f93">>, <<"kai", "shu2">>>>,   \* 开输 -> 开鼠
    <<<<"kai", "u8212">>, <<"kai", "shu2">>>>,   \* 开舒 -> 开鼠
    <<<<"kai", "u68b3">>, <<"kai", "shu2">>>>,   \* 开梳 -> 开鼠
    <<<<"kai", "u758f">>, <<"kai", "shu2">>>>,   \* 开疏 -> 开鼠
    <<<<"kai", "u53d4">>, <<"kai", "shu2">>>>,   \* 开叔 -> 开鼠
    <<<<"kai", "u6dd1">>, <<"kai", "shu2">>>>,   \* 开淑 -> 开鼠
    <<<<"kai", "u587e">>, <<"kai", "shu2">>>>,   \* 开塾 -> 开鼠
    <<<<"kai", "u6f8d">>, <<"kai", "shu2">>>>,   \* 开澍 -> 开鼠
    <<<<"da", "u5c5e">>, <<"da", "shu2">>>>,   \* 打属 -> 打鼠
    <<<<"da", "u8ff0">>, <<"da", "shu2">>>>,   \* 打述 -> 打鼠
    <<<<"da", "shu">>, <<"da", "shu2">>>>,   \* 打束 -> 打鼠
    <<<<"da", "u672f">>, <<"da", "shu2">>>>,   \* 打术 -> 打鼠
    <<<<"da", "u7f72">>, <<"da", "shu2">>>>,   \* 打署 -> 打鼠
    <<<<"da", "u8700">>, <<"da", "shu2">>>>,   \* 打蜀 -> 打鼠
    <<<<"da", "u85af">>, <<"da", "shu2">>>>,   \* 打薯 -> 打鼠
    <<<<"da", "u6691">>, <<"da", "shu2">>>>,   \* 打暑 -> 打鼠
    <<<<"da", "u4e66">>, <<"da", "shu2">>>>,   \* 打书 -> 打鼠
    <<<<"da", "u8f93">>, <<"da", "shu2">>>>,   \* 打输 -> 打鼠
    <<<<"chu2", "u5c5e">>, <<"chu2", "shu2">>>>,   \* 除属 -> 除鼠
    <<<<"chu2", "u8ff0">>, <<"chu2", "shu2">>>>,   \* 除述 -> 除鼠
    <<<<"chu2", "shu">>, <<"chu2", "shu2">>>>,   \* 除束 -> 除鼠
    <<<<"chu2", "u672f">>, <<"chu2", "shu2">>>>,   \* 除术 -> 除鼠
    <<<<"chu2", "u6691">>, <<"chu2", "shu2">>>>,   \* 除暑 -> 除鼠
    <<<<"chu2", "u4e66">>, <<"chu2", "shu2">>>>,   \* 除书 -> 除鼠
    <<<<"chu2", "u8f93">>, <<"chu2", "shu2">>>>,   \* 除输 -> 除鼠
    <<<<"qu", "u5c5e">>, <<"qu", "shu2">>>>,   \* 驱属 -> 驱鼠
    <<<<"qu", "u8ff0">>, <<"qu", "shu2">>>>,   \* 驱述 -> 驱鼠
    <<<<"qu", "shu">>, <<"qu", "shu2">>>>,   \* 驱束 -> 驱鼠
    <<<<"qu", "u672f">>, <<"qu", "shu2">>>>,   \* 驱术 -> 驱鼠
    <<<<"qu", "u6691">>, <<"qu", "shu2">>>>,   \* 驱暑 -> 驱鼠
    <<<<"qu", "u4e66">>, <<"qu", "shu2">>>>,   \* 驱书 -> 驱鼠
    <<<<"qu", "u8f93">>, <<"qu", "shu2">>>> >>   \* 驱输 -> 驱鼠

open_rodent_repeller == <<"da", "kai", "chu2", "shu2", "qi4">>      \* 打开除鼠器

\* 属 述 束 术 树 数 署 蜀 薯 暑 书 (l.886, l.891, l.1041)
shu_homophones == <<<<"u5c5e">>, <<"u8ff0">>, <<"shu">>, <<"u672f">>, <<"u6811">>, <<"shu3">>, <<"u7f72">>, <<"u8700">>, <<"u85af">>, <<"u6691">>, <<"u4e66">>>>

\* 开[^鼠]*属, 打开[^鼠]*属, 开[^鼠]*鼠, 打[^鼠]*属, 打[^鼠]*鼠, 启动[^鼠]*属,
\* 开启[^鼠]*属 (l.846-883): any of them rewrites the text to 打开除鼠器
rodent_open_patterns == <<
    Cat(<<Lit(<<"kai">>), Star(NotCls({"shu2"})), Lit(<<"u5c5e">>)>>),
    Cat(<<Lit(<<"da", "kai">>), Star(NotCls({"shu2"})), Lit(<<"u5c5e">>)>>),
    Cat(<<Lit(<<"kai">>), Star(NotCls({"shu2"})), Lit(<<"shu2">>)>>),
    Cat(<<Lit(<<"da">>), Star(NotCls({"shu2"})), Lit(<<"u5c5e">>)>>),
    Cat(<<Lit(<<"da">>), Star(NotCls({"shu2"})), Lit(<<"shu2">>)>>),
    Cat(<<Lit(<<"qi2", "dong">>), Star(NotCls({"shu2"})), Lit(<<"u5c5e">>)>>),
    Cat(<<Lit(<<"kai", "qi2">>), Star(NotCls({"shu2"})), Lit(<<"u5c5e">>)>>) >>

_correct_rodent_repeller_text(text) ==
    IF Len(text) = 0 THEN text
    ELSE
    LET replaced == ReplaceEach(text, rodent_corrections, 1)
        c1 == IF AnySearch(rodent_open_patterns, replaced)
              THEN open_rodent_repeller ELSE replaced
        c2 == IF StartsWith(c1, <<"da", "kai">>) /\ HasAny(Drop(c1, 3), shu_homophones)
              THEN open_rodent_repeller ELSE c1
    IN  IF StartsWith(c2, <<"kai">>) /\ HasAny(Drop(c2, 2), shu_homophones)
        THEN open_rodent_repeller ELSE c2

(***************************************************************************)
(* The handler object.  A handler operator takes the object as a record     *)
(* `self` of its attributes, the turn's texts and the turn's environment    *)
(* `env`, and yields [self, response, sent, raised]: the object after the   *)
(* call, the returned value, the messages emitted on the socket, and        *)
(* whether an exception left the call.                                      *)
(*                                                                         *)
(* A str-or-None attribute holds the string "None" for Python's None.  A    *)
(* response is a short tag for the response text; the tag "None" is a       *)
(* returned None.  env.emit_ok tells whether socketio.emit succeeds in      *)
(* this turn, env.llm what the language-model service does in this turn.    *)
(***************************************************************************)
ReturnsNone == "None"

\* conversation_state as reset_conversation_state builds it (l.2256-2269)
reset_conversation_state ==
    [current_context |-> "None",
     last_query_type |-> "None",
     last_query_results |-> <<>>,
     expecting_selection |-> FALSE,
     available_options |-> <<>>,
     last_query_params |-> None,
     waiting_for_temperature |-> FALSE,
     waiting_for_column |-> FALSE,
     pending_action |-> "None",
     pending_context |-> "None"]

\* what a call of send_websocket_message did: the value it returned, the
\* messages it put on the socket, and that it was called
NoSend == [ok |-> FALSE, msgs |-> <<>>, calls |-> 0]

Reply(self, resp, send) ==
    [self |-> self, response |-> resp, sent |-> send.msgs,
     calls |-> send.calls, raised |-> FALSE]

\* send_websocket_message (l.140-157): False when there is no socket or emit
\* raises, else the one message is emitted and True is returned
send_websocket_message(self, message_type, params, user_text, env) ==
    IF self.socketio = "None" THEN [ok |-> FALSE, msgs |-> <<>>, calls |-> 1]
    ELSE IF ~env.emit_ok THEN [ok |-> FALSE, msgs |-> <<>>, calls |-> 1]
    ELSE [ok |-> TRUE, calls |-> 1,
          msgs |-> <<[event |-> "command", type |-> message_type,
                      params |-> params, user_text |-> user_text]>>]

\* the value send_websocket_message returned
Success(send) == send.ok

\* `not value` for a value that is a string or None
Falsy(o) == IF IsNone(o) THEN TRUE ELSE Len(Val(o)) = 0

\* one of the 7 greeting templates, filled with the greeting of the current
\* time of day (l.2398-2428)
_get_greeting_response == "greeting"

\* chat_mode = False; one of the 4 chat farewells (l.549-562)
_exit_chat_mode(self) ==
    [self |-> [self EXCEPT !.chat_mode = FALSE], response |-> "chat_farewell"]

\* _handle_exit_command without the reset of the conversation state
_handle_exit_command_without_reset(self, text, original_text, known, env) ==
    Reply([self EXCEPT !.is_exited = TRUE], "farewell", NoSend)

_handle_exit_command(self, text, original_text, known, env) ==
    IF self.chat_mode
    THEN LET left == _exit_chat_mode(self)
             s1 == [left.self EXCEPT !.is_exited = TRUE]
             \* socketio.emit('conversation_ended', ...) called directly
             ended == [event |-> "conversation_ended", type |-> "None",
                       params |-> [message |-> left.response], user_text |-> <<>>]
         IN  IF s1.socketio = "None" THEN Reply(s1, left.response, NoSend)
             ELSE IF env.emit_ok
             THEN Reply(s1, left.response, [ok |-> TRUE, msgs |-> <<ended>>, calls |-> 0])
             ELSE [self |-> s1, response |-> ReturnsNone, sent |-> <<>>,
                   calls |-> 0, raised |-> TRUE]
    ELSE \* one of the 4 farewells; the conversation state is reset
         Reply([self EXCEPT !.is_exited = TRUE,
                            !.conversation_state = reset_conversation_state],
               "farewell", NoSend)

\* the looser match of _handle_selection (l.2148-2167) when no index was found
LenientSelection(text) ==
    IF Has(text, <<"er">>) \/ Has(text, <<"liang">>) THEN Some(2)
    ELSE IF Has(text, <<"san">>) THEN Some(3)
    ELSE IF Has(text, <<"si">>) THEN Some(4)
    ELSE IF Has(text, <<"wu">>) THEN Some(5)
    ELSE IF Has(text, <<"liu">>) THEN Some(6)
    ELSE IF Has(text, <<"qi">>) THEN Some(7)
    ELSE IF Has(text, <<"ba">>) THEN Some(8)
    ELSE IF Has(text, <<"jiu">>) THEN Some(9)
    ELSE IF Has(text, <<"shi">>) THEN Some(10)
    ELSE IF HasAny(text, <<<<"di", "yi", "tiao">>, <<"di", "yi", "ge">>, <<"shou2", "xuan">>>>) THEN Some(1)
    ELSE None

\* _handle_selection that leaves expecting_selection as it is when no index
\* is found
_handle_selection_keeping_flag(self, text, original_text, known, env) ==
    LET extracted == known._extract_selection_index
        selection_index == IF IsSome(extracted) THEN extracted ELSE known.LenientSelection
        msgs == send_websocket_message(self, "select_record",
                    [index |-> Val(selection_index) - 1], original_text, env)
    IN  IF IsNone(selection_index)
        THEN Reply(self, "ask_selection", NoSend)
        ELSE IF Success(msgs)
        THEN Reply([self EXCEPT !.conversation_state.expecting_selection = FALSE,
                                !.conversation_state.available_options = <<>>],
                   "selected", msgs)
        ELSE Reply(self, "selection_send_failed", msgs)

_handle_selection(self, text, original_text, known, env) ==
    LET extracted == known._extract_selection_index
        s1 == IF IsNone(extracted)
              THEN [self EXCEPT !.conversation_state.expecting_selection = FALSE]
              ELSE self
        selection_index == IF IsSome(extracted) THEN extracted ELSE known.LenientSelection
        msgs == send_websocket_message(s1, "select_record",
                    [index |-> Val(selection_index) - 1], original_text, env)
    IN  IF IsNone(selection_index)
        THEN \* 请告诉我您要选择第几条？...
             Reply(s1, "ask_selection", NoSend)
        ELSE IF Success(msgs)
        THEN \* 好的，已选择第{selection_index}条记录
             Reply([s1 EXCEPT !.conversation_state.expecting_selection = FALSE,
                              !.conversation_state.available_options = <<>>],
                   "selected", msgs)
        ELSE \* 选择命令发送失败，请稍后重试
             Reply(s1, "selection_send_failed", msgs)

\* ColumnResolved without the reset of pending_action
ColumnResolvedKeepingAction(self) ==
    [self EXCEPT !.conversation_state.waiting_for_column = FALSE,
                 !.conversation_state.pending_context = "None"]

\* conversation_state.update({'waiting_for_column': False,
\*     'pending_action': None, 'pending_context': None})
ColumnResolved(self) ==
    [self EXCEPT !.conversation_state.waiting_for_column = FALSE,
                 !.conversation_state.pending_action = "None",
                 !.conversation_state.pending_context = "None"]

_handle_column_input(self, text, original_text, known, env) ==
    LET action == self.conversation_state.pending_action
        column_number == known._extract_column_number
        closing == send_websocket_message(ColumnResolved(self), "close_cabinet",
                       [action |-> "off"], original_text, env)
        opening == send_websocket_message(ColumnResolved(self), "open_cabinet",
                       [colNo |-> Val(column_number)], original_text, env)
    IN  IF action = "close"
        THEN IF Success(closing)
             THEN \* 好的，正在为您关闭所有档案柜
                  Reply(ColumnResolved(self), "closing_all_cabinets", closing)
             ELSE \* 关闭命令发送失败
                  Reply(ColumnResolved(self), "close_send_failed", closing)
        ELSE IF ~Falsy(column_number)
        THEN \* the state is reset and open_cabinet is sent; no return
             \* statement follows (l.2024-2034)
             Reply(ColumnResolved(self), ReturnsNone, opening)
        ELSE \* 抱歉，我没有听清楚列号。请告诉我您要打开哪一列柜子？...
             Reply(self, "ask_column_again", NoSend)

\* conversation_state.update({'waiting_for_temperature': True,
\*     'pending_action': action, 'pending_context': 'temperature'})
AwaitTemperature(self, action) ==
    [self EXCEPT !.conversation_state.waiting_for_temperature = TRUE,
                 !.conversation_state.pending_action = action,
                 !.conversation_state.pending_context = "temperature"]

\* the action the keywords of the text name (l.1775-1806)
TemperatureAction(text) ==
    LET text_lower == Lower(text)
    IN  IF HasAny(text_lower, <<<<"ti", "gao">>, <<"sheng", "wen">>, <<"tiao2", "gao">>, <<"re">>>>) THEN "increase"
        ELSE IF HasAny(text_lower, <<<<"jiang", "di2">>, <<"jiang", "wen">>, <<"tiao2", "di2">>, <<"leng">>>>) THEN "decrease"
        ELSE "set"

_handle_temperature_control_websocket(self, text, original_text, known, env) ==
    LET temperature == known._extract_temperature
        action == known.TemperatureAction
        msgs == send_websocket_message(self, "control_thermo_hygro_sensor",
                    [action |-> action, temperature |-> Val(temperature)],
                    original_text, env)
    IN  IF Falsy(temperature)
        THEN \* 请问您希望升高多少度呢 / 降低多少度呢 / 要调节到多少度呢
             Reply(AwaitTemperature(self, action), "ask_temperature", NoSend)
        ELSE IF Success(msgs)
        THEN \* 好的，正在为您{action_text}{temperature}度
             Reply(self, "adjusting_temperature", msgs)
        ELSE \* 温湿度控制命令发送失败
             Reply(self, "temperature_send_failed", msgs)

VentilationAction(text) ==
    IF HasAny(text, <<<<"da", "kai">>, <<"kai", "qi2">>, <<"qi2", "dong">>>>) THEN "on"
    ELSE IF HasAny(text, <<<<"guan", "bi">>, <<"ting", "zhi11">>>>) THEN "off"
    ELSE "toggle"

_handle_ventilation_control_websocket(self, text, original_text, known, env) ==
    LET action == known.VentilationAction
        msgs == send_websocket_message(self, "control_air_conditioner",
                    [action |-> action], original_text, env)
    IN  IF Success(msgs)
        THEN \* 好的，正在为您{action_text}
             Reply(self, "ventilation", msgs)
        ELSE \* 通风控制命令发送失败
             Reply(self, "ventilation_send_failed", msgs)

_handle_status_query_websocket(self, text, original_text, known, env) ==
    LET msgs == send_websocket_message(self, "query_cabinet_status",
                    [command |-> text], original_text, env)
    IN  IF Success(msgs)
        THEN \* 好的，正在为您查询设备状态，请稍候
             Reply(self, "querying_status", msgs)
        ELSE \* 状态查询命令发送失败
             Reply(self, "status_send_failed", msgs)

\* the update of l.1913-1917 raising waiting_for_column only
AwaitColumnKeepingAction(self, action) ==
    [self EXCEPT !.conversation_state.waiting_for_column = TRUE]

\* conversation_state.update({'waiting_for_column': True,
\*     'pending_action': action, 'pending_context': 'cabinet_control'})
AwaitColumn(self, action) ==
    [self EXCEPT !.conversation_state.waiting_for_column = TRUE,
                 !.conversation_state.pending_action = action,
                 !.conversation_state.pending_context = "cabinet_control"]

\* 'close' if a close keyword occurs in the text, else 'open' (l.1886-1893)
CabinetAction(text) ==
    LET text_lower == Lower(text)
        close_keywords == <<<<"guan", "bi">>, <<"guan">>, <<"guan", "diao">>, <<"guan", "shang">>, <<"guan", "bi2">>, <<"wan", "bi2">>>>
        has_close == HasAny(text_lower, close_keywords)
    IN  IF has_close THEN "close" ELSE "open"

_handle_cabinet_control_websocket(self, text, original_text, known, env) ==
    LET action == known.CabinetAction
        column_number == known._extract_column_number
        closing == send_websocket_message(self, "close_cabinet",
                       [action |-> "off"], original_text, env)
        opening == send_websocket_message(self, "open_cabinet",
                       [colNo |-> Val(column_number)], original_text, env)
    IN  IF action = "close"
        THEN IF Success(closing)
             THEN \* 好的，正在为您关闭所有档案柜
                  Reply(self, "closing_all_cabinets", closing)
             ELSE \* 关闭命令发送失败，请稍后重试
                  Reply(self, "close_send_failed", closing)
        ELSE IF Falsy(column_number)
        THEN \* 请问您要打开哪一列柜子？例如：第三列、3列
             Reply(AwaitColumn(self, action), "ask_column", NoSend)
        ELSE IF Success(opening)
        THEN \* 好的，正在为您打开第{column_number}列柜子
             Reply(self, "opening_column", opening)
        ELSE \* 打开命令发送失败，请稍后重试
             Reply(self, "open_send_failed", opening)

\* _handle_archive_query_by_name_websocket without the update of
\* conversation_state after the message is sent (l.1256-1266)
_handle_archive_query_without_update(self, text, original_text, known, env) ==
    LET query_value == known._extract_archive_query_value
        msgs == send_websocket_message(self, "query_record",
                    [name |-> Val(query_value)], original_text, env)
    IN  IF Falsy(query_value)
        THEN Reply(self, "ask_archive", NoSend)
        ELSE IF Success(msgs)
        THEN Reply(self, "querying_archive", msgs)
        ELSE Reply(self, "archive_send_failed", msgs)

\* _handle_archive_query_by_name_websocket with the update of
\* conversation_state made whatever send_websocket_message returned
_handle_archive_query_updating_unsent(self, text, original_text, known, env) ==
    LET query_value == known._extract_archive_query_value
        msgs == send_websocket_message(self, "query_record",
                    [name |-> Val(query_value)], original_text, env)
    IN  IF Falsy(query_value)
        THEN Reply(self, "ask_archive", NoSend)
        ELSE Reply([self EXCEPT
                        !.conversation_state.current_context = "archive_query",
                        !.conversation_state.last_query_type = "query_record",
                        !.conversation_state.last_query_params =
                            Some([query_value |-> Val(query_value),
                                  original_text |-> original_text]),
                        !.conversation_state.expecting_selection = TRUE,
                        !.conversation_state.last_query_results = <<>>],
                   IF Success(msgs) THEN "querying_archive" ELSE "archive_send_failed",
                   msgs)

_handle_archive_query_by_name_websocket(self, text, original_text, known, env) ==
    LET text_with_spaces == original_text
        cleaned_text == known.recleaned_text
        query_value == known._extract_archive_query_value
        msgs == send_websocket_message(self, "query_record",
                    [name |-> Val(query_value)], text_with_spaces, env)
    IN  IF Falsy(query_value)
        THEN \* 请告诉我您要查询什么档案？...
             Reply(self, "ask_archive", NoSend)
        ELSE IF Success(msgs)
        THEN \* 好的，正在为您查询档案信息，请稍后... (one of 3)
             Reply([self EXCEPT
                        !.conversation_state.current_context = "archive_query",
                        !.conversation_state.last_query_type = "query_record",
                        !.conversation_state.last_query_params =
                            Some([query_value |-> Val(query_value),
                                  original_text |-> text_with_spaces]),
                        !.conversation_state.expecting_selection = TRUE,
                        !.conversation_state.last_query_results = <<>>],
                   "querying_archive", msgs)
        ELSE \* 查询请求发送失败，请稍后重试
             Reply(self, "archive_send_failed", msgs)

(***************************************************************************)
(* Device tables of the constructor (l.50-88)                              *)
(***************************************************************************)
air_conditioner_asset_id == "OE99O7T9TT13571J1J1AA59TAOE5A1T3"
air_conditioner_port == 8001
dehumidifier_asset_id == "J33AA3T1979EO73AA3JJTJ7O91E33JTJ"
dehumidifier_port == 8004
rodent_repeller_asset_id == "99757JOO39T573OOA915JJ31OTTA1O3E"
rodent_repeller_port == 8005

dehumidifier_commands ==
    << <<<<"kai", "ji2">>, [command |-> 1, switchOnOrOff |-> TRUE]>>,
       <<<<"guan", "ji2">>, [command |-> 2, switchOnOrOff |-> TRUE]>>,
       <<<<"chu2", "shi2">>, [command |-> 3, switchOnOrOff |-> FALSE]>>,
       <<<<"jing", "hua2">>, [command |-> 7, switchOnOrOff |-> FALSE]>>,
       <<<<"jia", "shi2">>, [command |-> 4, switchOnOrOff |-> FALSE]>> >>

rodent_repeller_commands ==
    << <<<<"guan", "bi">>, [command |-> 0, switchOnOrOff |-> TRUE]>>,
       <<<<"di2", "pin">>, [command |-> 1, switchOnOrOff |-> FALSE]>>,
       <<<<"gao", "pin">>, [command |-> 2, switchOnOrOff |-> FALSE]>> >>

\* the entry of dehumidifier_commands the text selects, with the response
\* text that goes with it; None when the text names no operation
DehumidifierChoice(cleaned_text) ==
    IF HasAny(cleaned_text, <<<<"kai", "ji2">>, <<"da", "kai", "jia", "shi2", "qi4">>, <<"qi2", "dong", "jia", "shi2", "qi4">>>>)
    THEN Some([key |-> <<"kai", "ji2">>, response_text |-> "dehumidifier_on"])
    ELSE IF HasAny(cleaned_text, <<<<"guan", "ji2">>, <<"guan", "bi", "jia", "shi2", "qi4">>, <<"guan", "jia", "shi2", "qi4">>>>)
    THEN Some([key |-> <<"guan", "ji2">>, response_text |-> "dehumidifier_off"])
    ELSE IF Has(cleaned_text, <<"chu2", "shi2">>)
    THEN Some([key |-> <<"chu2", "shi2">>, response_text |-> "dehumidify_mode_on"])
    ELSE IF Has(cleaned_text, <<"jing", "hua2">>)
    THEN Some([key |-> <<"jing", "hua2">>, response_text |-> "purify_mode_on"])
    ELSE IF Has(cleaned_text, <<"jia", "shi2">>)
    THEN Some([key |-> <<"jia", "shi2">>, response_text |-> "humidify_mode_on"])
    ELSE IF HasAny(cleaned_text, <<<<"da", "kai">>, <<"kai", "qi2">>, <<"qi2", "dong">>>>)
    THEN Some([key |-> <<"kai", "ji2">>, response_text |-> "dehumidifier_on"])
    ELSE IF HasAny(cleaned_text, <<<<"guan", "bi">>, <<"guan">>, <<"guan", "diao">>>>)
    THEN Some([key |-> <<"guan", "ji2">>, response_text |-> "dehumidifier_off"])
    ELSE None

_handle_dehumidifier_control_websocket(self, text, original_text, known, env) ==
    LET choice == known.DehumidifierChoice
        command_info == DictGet(dehumidifier_commands, Val(choice).key)
        msgs == send_websocket_message(self, "dehumidifier_control",
                    [assetId |-> dehumidifier_asset_id,
                     command |-> command_info.command,
                     port |-> dehumidifier_port,
                     switchOnOrOff |-> command_info.switchOnOrOff],
                    original_text, env)
    IN  IF IsNone(choice)
        THEN \* 请告诉我具体的加湿器操作，比如：...
             Reply(self, "ask_dehumidifier", NoSend)
        ELSE IF Success(msgs)
        THEN Reply(self, Val(choice).response_text, msgs)
        ELSE \* 加湿器控制命令发送失败，请稍后重试
             Reply(self, "dehumidifier_send_failed", msgs)

\* the air conditioner command the text selects (air_conditioner_commands
\* gives the same numbers), or None
AirConditionerCommand(cleaned_text) ==
    IF HasAny(cleaned_text, <<<<"kai", "ji2">>, <<"da", "kai", "kong", "tiao2">>, <<"qi2", "dong", "kong", "tiao2">>>>) THEN Some(0)
    ELSE IF HasAny(cleaned_text, <<<<"guan", "ji2">>, <<"guan", "bi", "kong", "tiao2">>, <<"guan", "kong", "tiao2">>>>) THEN Some(1)
    ELSE IF Has(cleaned_text, <<"zhi12", "leng", "1", "8">>) THEN Some(2)
    ELSE IF Has(cleaned_text, <<"zhi12", "leng", "2", "0">>) THEN Some(3)
    ELSE IF Has(cleaned_text, <<"zhi12", "leng", "2", "2">>) THEN Some(4)
    ELSE IF Has(cleaned_text, <<"chu2", "shi2", "2", "5">>) THEN Some(5)
    ELSE IF Has(cleaned_text, <<"zhi12", "re", "2", "0">>) THEN Some(6)
    ELSE IF Has(cleaned_text, <<"zhi12", "re", "2", "2">>) THEN Some(7)
    ELSE IF Has(cleaned_text, <<"zhi12", "re", "2", "4">>) THEN Some(8)
    ELSE IF Has(cleaned_text, <<"zhi12", "leng">>) THEN Some(4)
    ELSE IF Has(cleaned_text, <<"zhi12", "re">>) THEN Some(7)
    ELSE IF Has(cleaned_text, <<"chu2", "shi2">>) THEN Some(5)
    ELSE IF HasAny(cleaned_text, <<<<"da", "kai">>, <<"kai", "qi2">>, <<"qi2", "dong">>>>) THEN Some(0)
    ELSE IF HasAny(cleaned_text, <<<<"guan", "bi">>, <<"guan">>, <<"guan", "diao">>>>) THEN Some(1)
    ELSE None

_handle_air_conditioner_control_websocket(self, text, original_text, known, env) ==
    LET command == known.AirConditionerCommand
        msgs == send_websocket_message(self, "air_control",
                    [assetId |-> air_conditioner_asset_id,
                     command |-> Val(command),
                     port |-> air_conditioner_port],
                    original_text, env)
    IN  IF IsNone(command)
        THEN \* 请告诉我具体的空调操作，比如：...
             Reply(self, "ask_air_conditioner", NoSend)
        ELSE IF Success(msgs)
        THEN \* 正在为您打开空调 / 正在设置空调为制冷22度 / ...
             Reply(self, "air_conditioner", msgs)
        ELSE \* 空调控制命令发送失败，请稍后重试
             Reply(self, "air_conditioner_send_failed", msgs)

\* the entry of rodent_repeller_commands the corrected text selects, with
\* its response text; None when the text names no operation
RodentChoice(cleaned_text) ==
    LET opens == HasAny(cleaned_text, <<<<"da", "kai">>, <<"kai">>, <<"kai", "qi2">>, <<"qi2", "dong">>>>)
        low == Some([key |-> <<"di2", "pin">>, response_text |-> "rodent_on_low"])
    IN  IF HasAny(cleaned_text, <<<<"guan", "bi">>, <<"guan">>, <<"guan", "diao">>, <<"ting", "zhi11">>, <<"guan", "bi2">>, <<"guan", "bi", "chu2", "shu2", "qi4">>, <<"guan", "chu2", "shu2", "qi4">>, <<"guan", "bi", "qu", "shu2">>, <<"guan", "qu", "shu2">>, <<"guan", "bi", "chu2", "shu2", "she", "bei">>, <<"guan", "bi", "lao", "shu2", "qi4">>, <<"guan", "chu2", "shu2", "she", "bei">>, <<"guan", "lao", "shu2", "qi4">>>>)
        THEN Some([key |-> <<"guan", "bi">>, response_text |-> "rodent_off"])
        ELSE IF HasAny(cleaned_text, <<<<"gao", "pin">>, <<"gao", "pin", "mo", "shi5">>, <<"chu2", "shu2", "qi4", "gao", "pin">>, <<"gao", "pin2">>, <<"gao", "ping">>, <<"gao", "pin", "u7387">>>>)
        THEN Some([key |-> <<"gao", "pin">>, response_text |-> "rodent_high"])
        ELSE IF HasAny(cleaned_text, <<<<"di2", "pin">>, <<"di2", "pin", "mo", "shi5">>, <<"chu2", "shu2", "qi4", "di2", "pin">>, <<"di2", "pin2">>, <<"di2", "ping">>, <<"di2", "pin", "u7387">>>>)
        THEN Some([key |-> <<"di2", "pin">>, response_text |-> "rodent_low"])
        ELSE IF HasAny(cleaned_text, <<<<"da", "kai", "chu2", "shu2", "qi4">>, <<"kai", "chu2", "shu2", "qi4">>, <<"kai", "qi2", "chu2", "shu2", "qi4">>, <<"qi2", "dong", "chu2", "shu2", "qi4">>, <<"da", "kai", "chu2", "shu2">>, <<"kai", "chu2", "shu2">>, <<"kai", "qi2", "chu2", "shu2">>, <<"qi2", "dong", "chu2", "shu2">>, <<"da", "kai", "lao", "shu2", "qi4">>, <<"kai", "lao", "shu2", "qi4">>, <<"kai", "qi2", "lao", "shu2", "qi4">>, <<"qi2", "dong", "lao", "shu2", "qi4">>, <<"da", "kai", "qu", "shu2", "qi4">>, <<"kai", "qu", "shu2", "qi4">>, <<"qi2", "dong", "qu", "shu2", "qi4">>>>)
        THEN low
        ELSE IF HasAny(cleaned_text, <<<<"u5c5e">>, <<"u8ff0">>, <<"shu">>, <<"u672f">>, <<"u6811">>, <<"shu3">>, <<"u7f72">>, <<"u8700">>, <<"u85af">>, <<"u6691">>, <<"u4e66">>>>) /\ opens
        THEN low
        ELSE IF HasAny(cleaned_text, <<<<"chu2", "shu2", "qi4">>, <<"qu", "shu2", "qi4">>, <<"chu2", "shu2", "she", "bei">>, <<"qu", "shu2", "she", "bei">>, <<"lao", "shu2", "qi4">>, <<"shu2", "qi4">>, <<"shu2", "she", "bei">>>>)
        THEN low
        ELSE IF HasAny(cleaned_text, <<<<"lao", "shu2">>, <<"shu2">>, <<"u8017", "zi">>, <<"u5927", "lao", "shu2">>, <<"xiao", "lao", "shu2">>>>)
        THEN low
        ELSE IF Has(cleaned_text, <<"chu3", "chu3">>) /\ opens
        THEN low
        ELSE None

_handle_rodent_repeller_control_websocket(self, text, original_text, known, env) ==
    LET choice == known.RodentChoice
        command_info == DictGet(rodent_repeller_commands, Val(choice).key)
        msgs == send_websocket_message(self, "shu_control",
                    [assetId |-> rodent_repeller_asset_id,
                     command |-> command_info.command],
                    original_text, env)
    IN  IF IsNone(choice)
        THEN \* 请告诉我具体的除鼠器操作，比如：...
             Reply(self, "ask_rodent", NoSend)
        ELSE IF Success(msgs)
        THEN Reply(self, Val(choice).response_text, msgs)
        ELSE \* 除鼠器控制命令发送失败，请稍后重试
             Reply(self, "rodent_send_failed", msgs)

\* the response sent as ai_response twice
AiResponseTwice(self, response, text, env) ==
    LET send == send_websocket_message(self, "ai_response", [response |-> response], text, env)
    IN  Reply(self, response,
              [ok |-> send.ok, msgs |-> send.msgs \o send.msgs, calls |-> 2 * send.calls])

\* the handler sends its response as ai_response and returns it
AiResponse(self, response, text, env) ==
    Reply(self, response,
          send_websocket_message(self, "ai_response", [response |-> response], text, env))

(***************************************************************************)
(* OllamaClient (src/core/ollama_client.py).  env.llm is what the service  *)
(* does in the turn: "down" - is_service_available() is False; "reply" -   *)
(* client.chat returns the model's reply; "timeout" - client.chat has not  *)
(* returned when thread.join(timeout=100) ends.                            *)
(***************************************************************************)
\* <think> and </think>, character by character
think_open == <<"<", "t", "h", "i", "n", "k", ">">>
think_close == <<"<", "/", "t", "h", "i", "n", "k", ">">>

\* think_pattern = r'<think>.*?</think>' (l.293); with re.DOTALL the dot
\* matches every character
think_pattern == Cat(<<Lit(think_open), LazyStar(AnyCh), Lit(think_close)>>)

\* re.sub(r, '', t) from position i on: the matches are found left to right
\* in t itself, each search starting where the last match ended, and the
\* text between them is kept
RECURSIVE SubFrom(_, _, _)
SubFrom(r, t, i) ==
    LET m == RxSearchFrom(r, t, i)
    IN  IF ~m.ok THEN Drop(t, i)
        ELSE SubSeq(t, i, m.s - 1)
             \o (IF m.e > m.s THEN SubFrom(r, t, m.e)
                 ELSE IF m.e > Len(t) THEN <<>>
                 ELSE <<t[m.e]>> \o SubFrom(r, t, m.e + 1))

\* 我还在学习中，暂时无法回答这个问题。... (l.298), the reply of
\* _filter_think_tags for a text that holds nothing but spans and blanks
still_learning_default == <<"wo", "hai", "zai", "xue", "xi", "zhong">>

\* 小智正在努力学习这个问题 (l.432, l.449, l.453)
working_on_it == <<"xiao", "zhi", "zheng", "zai", "nu", "li", "xue", "xi">>

\* 小智还在思考中，我们换个话题聊聊吧~ (l.444)
still_thinking == <<"xiao", "zhi", "hai", "zai", "si", "kao", "zhong">>

\* OllamaClient._filter_think_tags (l.285-300)
_filter_think_tags(text) ==
    IF Len(text) = 0 THEN text
    ELSE LET filtered == SubFrom(think_pattern, text, 1)
         IN  IF Len(Strip(filtered)) = 0 THEN still_learning_default
             ELSE Strip(filtered)

\* what _send_via_http returns when client.chat has returned the reply raw
\* (l.435-449)
filtered_response(raw) ==
    LET content == Strip(raw)
        filtered == _filter_think_tags(content)
    IN  IF Len(filtered) > 0 /\ filtered # still_thinking THEN filtered
        ELSE working_on_it

\* lst[-n:]
LastN(lst, n) == SubSeq(lst, IF Len(lst) > n THEN Len(lst) - n + 1 ELSE 1, Len(lst))

\* the test of l.444 on what _filter_think_tags returned
valid_reply(filtered) == Len(filtered) > 0 /\ filtered # still_thinking

\* _update_conversation_history with no limit on the length
_update_conversation_history_unbounded(history, user_message, assistant_message) ==
    history \o <<[role |-> "user", content |-> user_message],
                 [role |-> "assistant", content |-> assistant_message]>>

\* _update_conversation_history (l.302-314) on the list history
_update_conversation_history(history, user_message, assistant_message) ==
    LET appended == history \o <<[role |-> "user", content |-> user_message],
                                 [role |-> "assistant", content |-> assistant_message]>>
    IN  IF Len(appended) > 8 THEN LastN(appended, 8) ELSE appended

\* the system prompts of the two builders (l.460-485, l.507-533)
chat_system_prompt == <<"chat_system_prompt">>
device_system_prompt == <<"device_system_prompt">>

\* _build_chat_messages (l.455-500)
_build_chat_messages(history, current_message) ==
    <<[role |-> "system", content |-> chat_system_prompt]>>
    \o LastN(history, 6)
    \o <<[role |-> "user", content |-> current_message]>>

\* _build_messages_with_history (l.502-548)
_build_messages_with_history(history, current_message) ==
    <<[role |-> "system", content |-> device_system_prompt]>>
    \o LastN(history, 8)
    \o <<[role |-> "user", content |-> current_message]>>

\* the results send_message does not accept from _send_via_http (l.351)
rejected_results == {"not_understood", "request_timeout", "still_learning"}

\* _send_via_http (l.374-453): the filtered reply, or 小智正在努力学习这个问题
\* when the thread is still alive after the join (l.415-417)
_send_via_http(chat) ==
    IF chat = "timeout" THEN "still_learning" ELSE "ollama_response"

\* send_message (l.337-368); websocket_available is never set (l.31), so
\* the WebSocket is not tried
send_message(chat) ==
    IF chat = "down"
    THEN \* _get_connection_error_details()
         "connection_error_details"
    ELSE LET result == _send_via_http(chat)
         IN  IF result \notin rejected_results THEN result
             ELSE \* 无法连接到AI服务。请检查：WebSocket连接失败
                  "cannot_connect"

\* send_chat_message (l.370-372)
send_chat_message(chat) == send_message(chat)

\* _handle_with_ollama_enhanced without the two checks before the call
\* (l.1400-1412)
_handle_with_ollama_unchecked(self, text, env) ==
    AiResponse(self, send_chat_message(env.llm), text, env)

_handle_with_ollama_enhanced(self, text, env) ==
    IF self.ollama_client \in {"unset", "None"}
    THEN \* AI服务暂不可用，请检查系统配置
         AiResponse(self, "ai_unavailable", text, env)
    ELSE IF env.llm = "down"
    THEN \* AI服务连接失败，请确保Ollama服务正在运行
         AiResponse(self, "ai_connection_failed", text, env)
    ELSE LET ollama_response == send_chat_message(env.llm)
         IN  IF ollama_response # ""
             THEN AiResponse(self, ollama_response, text, env)
             ELSE \* AI服务响应异常，请稍后重试或检查服务状态
                  AiResponse(self, "ai_response_abnormal", text, env)

_handle_with_ollama_directly(self, text, env) ==
    IF self.ollama_client \in {"unset", "None"}
    THEN \* AI服务暂不可用
         AiResponse(self, "ai_unavailable", text, env)
    ELSE IF env.llm = "down"
    THEN \* 无法连接到AI服务，请检查服务状态
         AiResponse(self, "ai_connection_failed", text, env)
    ELSE LET ollama_response == send_message(env.llm)
         IN  IF ollama_response # ""
             THEN \* the turn is also appended to self.conversation_history,
                  \* a list that nothing reads; the model does not keep it
                  AiResponse(self, ollama_response, text, env)
             ELSE \* 抱歉，我没有理解您的意思
                  AiResponse(self, "ai_not_understood", text, env)

\* text in [...]
IsOneOf(text, words) == \E k \in 1..Len(words) : words[k] = text

\* the branch of _handle_device_control_websocket the keywords of the text
\* select (l.1530-1590)
DeviceTarget(text) ==
    LET text_lower == Lower(text)
        temperature_keywords == <<<<"wen", "du">>, <<"shi2", "du">>, <<"tiao2", "jie2">>, <<"she", "zhi14">>, <<"du">>, <<"tiao2", "dao">>, <<"tiao2", "zhi12">>, <<"tiao2", "zhi13">>>>
        cabinet_keywords == <<<<"gui", "zi">>, <<"dang", "an", "gui">>, <<"xiang2", "zi">>, <<"xiang", "zi">>, <<"gui2", "zi">>, <<"gui", "le">>>>
        has_cabinet_keyword == HasAny(text, cabinet_keywords)
    IN  IF IsOneOf(text, <<<<"da", "kai">>, <<"kai", "qi2">>, <<"qi2", "dong">>>>)
        THEN \* 哎~ 您想打开什么设备呢？...
             "ask_what_to_open"
        ELSE IF IsOneOf(text, <<<<"guan", "bi">>, <<"guan">>, <<"guan", "diao">>, <<"ting", "zhi11">>>>)
        THEN \* 哎~ 您想关闭什么设备呢？...
             "ask_what_to_close"
        ELSE IF HasAny(text_lower, <<<<"jia", "shi2", "qi4">>, <<"chu2", "shi2">>, <<"jing", "hua2">>, <<"jia", "shi2">>>>)
        THEN "dehumidifier"
        ELSE IF HasAny(text_lower, <<<<"kong", "tiao2">>, <<"zhi12", "leng">>, <<"zhi12", "re">>>>)
        THEN "air_conditioner"
        ELSE IF HasAny(text_lower, <<<<"chu2", "shu2", "qi4">>, <<"qu", "shu2", "qi4">>, <<"chu2", "shu2">>, <<"qu", "shu2">>, <<"lao", "shu2">>>>)
        THEN "rodent_repeller"
        ELSE IF HasAny(text_lower, temperature_keywords)
        THEN "temperature"
        ELSE IF HasAny(text_lower, <<<<"tong2", "feng">>, <<"huan", "qi3">>>>)
        THEN "ventilation"
        ELSE IF has_cabinet_keyword
        THEN "cabinet"
        ELSE IF HasAny(text, <<<<"di">>, <<"lie">>>>) /\ HasAny(text, <<<<"da", "kai">>, <<"guan", "bi">>, <<"kai">>, <<"guan">>>>)
        THEN "cabinet"
        ELSE IF HasAny(text_lower, <<<<"zhuang", "tai">>, <<"cha", "kan">>, <<"jian2", "kong2">>>>)
        THEN "status"
        ELSE "ollama"

_handle_device_control_websocket(self, text, original_text, known, env) ==
    LET target == known.DeviceTarget
    IN  IF target = "ask_what_to_open"
        THEN \* 哎~ 您想打开什么设备呢？...
             AiResponse(self, "ask_what_to_open", original_text, env)
        ELSE IF target = "ask_what_to_close"
        THEN \* 哎~ 您想关闭什么设备呢？...
             AiResponse(self, "ask_what_to_close", original_text, env)
        ELSE IF target = "dehumidifier"
        THEN _handle_dehumidifier_control_websocket(self, text, original_text, known, env)
        ELSE IF target = "air_conditioner"
        THEN _handle_air_conditioner_control_websocket(self, text, original_text, known, env)
        ELSE IF target = "rodent_repeller"
        THEN _handle_rodent_repeller_control_websocket(self, text, original_text, known, env)
        ELSE IF target = "temperature"
        THEN _handle_temperature_control_websocket(self, text, original_text, known, env)
        ELSE IF target = "ventilation"
        THEN _handle_ventilation_control_websocket(self, text, original_text, known, env)
        ELSE IF target = "cabinet"
        THEN _handle_cabinet_control_websocket(self, text, original_text, known, env)
        ELSE IF target = "status"
        THEN _handle_status_query_websocket(self, text, original_text, known, env)
        ELSE _handle_with_ollama_directly(self, text, env)

\* the handler of the first rule of process_command that applies to
\* cleaned_text (l.314-346)
\* a greeting that also drops what the conversation was waiting for
GreetingReplyWithReset(self) ==
    Reply([self EXCEPT !.conversation_state = reset_conversation_state],
          _get_greeting_response, NoSend)

\* response = self._get_greeting_response(); return response (l.314-317)
GreetingReply(self) == Reply(self, _get_greeting_response, NoSend)

\* process_command with the test of waiting_for_column moved behind the
\* archive and device tests
DispatchColumnInputLast(self, text, known, env) ==
    LET cleaned_text == known.cleaned_text
    IN  IF known._is_pure_wakeup_call
        THEN GreetingReply(self)
        ELSE IF known._is_exit_command[self.chat_mode]
        THEN _handle_exit_command(self, cleaned_text, text, known, env)
        ELSE IF known._looks_like_selection_command
        THEN _handle_selection(self, cleaned_text, text, known, env)
        ELSE IF known._is_archive_query_by_name
        THEN _handle_archive_query_by_name_websocket(self, cleaned_text, text, known, env)
        ELSE IF known._is_explicit_device_control
        THEN _handle_device_control_websocket(self, cleaned_text, text, known, env)
        ELSE IF self.conversation_state.waiting_for_column
        THEN _handle_column_input(self, cleaned_text, text, known, env)
        ELSE _handle_with_ollama_enhanced(self, cleaned_text, env)

Dispatch(self, text, known, env) ==
    LET cleaned_text == known.cleaned_text
    IN  IF known._is_pure_wakeup_call
        THEN GreetingReply(self)
        ELSE IF known._is_exit_command[self.chat_mode]
        THEN _handle_exit_command(self, cleaned_text, text, known, env)
        ELSE IF known._looks_like_selection_command
        THEN _handle_selection(self, cleaned_text, text, known, env)
        ELSE IF self.conversation_state.waiting_for_column
        THEN _handle_column_input(self, cleaned_text, text, known, env)
        ELSE IF known._is_archive_query_by_name
        THEN _handle_archive_query_by_name_websocket(self, cleaned_text, text, known, env)
        ELSE IF known._is_explicit_device_control
        THEN _handle_device_control_websocket(self, cleaned_text, text, known, env)
        ELSE _handle_with_ollama_enhanced(self, cleaned_text, env)

(***************************************************************************)
(* The utterances of the model.  Heard is what the recognizer (or the      *)
(* keyboard) hands to process_command in a turn.                           *)
(***************************************************************************)
Heard ==
    { <<>>,                    \* nothing recognized
      <<"ni", "hao2", "xiao", "zhi">>,             \* greeting + wake word
      <<"ni", "hao2", "xiao", "zhi", "da", "kai", "gui", "zi">>,    \* 你好小智打开柜子
      <<"tui", "chu">>,
      <<"u8fdb", "u5165", "liao", "tian", "mo", "shi5">>,    \* 进入聊天模式
      <<"0", "5", "6", "7">>,                           \* 0567
      <<"di", "er", "ge">>,
      <<"di", "0", "tiao">>,                          \* 第0条
      <<"di", "san", "lie">>,
      <<"3", "lie">>,
      <<"da", "kai">>,                                \* 打开
      <<"da", "kai", "gui", "zi">>,
      <<"da", "kai", "3", "lie", "gui", "zi">>,
      <<"guan", "bi", "gui", "zi">>,
      <<"guan", "bi", "dang", "an", "gui">>,          \* 关闭档案柜
      <<"guan", "bi", "kong", "tiao2">>,
      <<"guan", "bi", "chu2", "shi2">>,
      <<"da", "kai", "chu2", "shu2", "qi4">>,
      <<"da", "kai", "tong2", "feng">>,
      <<"da", "kai", "tong2", "feng", "tiao2", "jie2", "wen", "du">>,
      <<"wen", "du", "tiao2", "dao", "2", "5", "du">>,
      <<"cha", "xun", "dang", "an", "0", "5", "6", "7">>,
      <<"cha", "xun", "dang", "an">>,
      <<"cha", "xun", "zhuang", "tai">>,                    \* 查询状态
      <<"da", "kai", "di", "yi", "lie">>,
      <<"gao", "pin", "mo", "shi5">>,
      <<"jin", "tian", "tian", "qi3", "u600e", "u4e48", "u6837">> }

\* a greeting word of _is_pure_wakeup_call followed by one of its forms of
\* 小智, and the other way round
WakeupCalls ==
    UNION {{greeting_words[i] \o xiaozhi_variants[j],
            xiaozhi_variants[j] \o greeting_words[i]} :
              i \in DOMAIN greeting_words, j \in DOMAIN xiaozhi_variants}

\* the words _clean_text turns into 关闭, and 关闭 itself (l.1496-1511):
\* 关闭 关毕 完毕 关掉 停止
close_verbs == <<<<"guan", "bi">>, <<"guan", "bi2">>, <<"wan", "bi2">>, <<"guan", "diao">>, <<"ting", "zhi11">>>>

\* a close verb followed at once by a device word of _is_exit_command
CloseDeviceCalls ==
    {close_verbs[i] \o device_indicators[j] :
        i \in DOMAIN close_verbs, j \in DOMAIN device_indicators}

\* 第 + a Chinese numeral or a digit + 条, 个 or 项
OrdinalCalls ==
    {<<"di">> \o n \o c :
        n \in {<<"yi">>, <<"er">>, <<"san">>, <<"si">>, <<"wu">>, <<"liu">>, <<"qi">>, <<"ba">>,
               <<"jiu">>, <<"shi">>, <<"1">>, <<"2">>, <<"3">>, <<"4">>, <<"5">>, <<"6">>,
               <<"7">>, <<"8">>, <<"9">>},
        c \in {<<"tiao">>, <<"ge">>, <<"xiang3">>}}

\* phrases asking for chat mode: 进入聊天模式 聊天模式 开始聊天 我们聊天吧 陪我聊天 我想聊天
EnterChatCalls ==
    {<<"u8fdb", "u5165", "liao", "tian", "mo", "shi5">>,
     <<"liao", "tian", "mo", "shi5">>,
     <<"kai", "u59cb", "liao", "tian">>,
     <<"wo", "u4eec", "liao", "tian", "ba3">>,
     <<"u966a", "wo", "liao", "tian">>,
     <<"wo", "xiang4", "liao", "tian">>} 

\* commands said after a greeting and 小智 (你好小智, 小智你好), with the command
GreetedCommands ==
    {[text |-> call \o command, command |-> command] :
         call \in {<<"ni", "hao2", "xiao", "zhi">>, <<"xiao", "zhi", "ni", "hao2">>},
         command \in {<<"da", "kai", "gui", "zi">>,
                      <<"guan", "bi", "gui", "zi">>,
                      <<"da", "kai", "3", "lie", "gui", "zi">>,
                      <<"cha", "xun", "dang", "an", "0", "5", "6", "7">>}}

\* utterances holding a run of three or more digits and no query verb, with
\* the run
BareRecordCodes ==
    {[text |-> <<"0", "5", "6", "7">>, code |-> <<"0", "5", "6", "7">>],
     [text |-> <<"dang", "an", "0", "5", "6", "7">>, code |-> <<"0", "5", "6", "7">>],
     [text |-> <<"1", "2", "3">>, code |-> <<"1", "2", "3">>],
     [text |-> <<"0", "5", "6", "7", "hao">>, code |-> <<"0", "5", "6", "7">>]}

\* utterances matching an entry of exit_patterns (l.212-219): 小智退出 小智再见
\* 小智拜拜 退出 再见 拜拜 关闭系统 停止对话
ExitCalls ==
    {<<"xiao", "zhi", "tui", "chu">>,
     <<"xiao", "zhi", "zai", "jian">>,
     <<"xiao", "zhi", "bai", "bai">>,
     <<"tui", "chu">>,
     <<"zai", "jian">>,
     <<"bai", "bai">>,
     <<"guan", "bi", "xi", "tong">>,
     <<"ting", "zhi11", "dui", "hua">>}

\* a close verb before a mode of the dehumidifier (关闭除湿, 关闭净化, 关闭加湿),
\* with the command code that switches the mode on
CloseModeCalls ==
    {[text |-> <<"guan", "bi", "chu2", "shi2">>, on |-> 3],
     [text |-> <<"guan", "bi", "jing", "hua2">>, on |-> 7],
     [text |-> <<"guan", "bi", "jia", "shi2">>, on |-> 4]}

\* the utterances the text functions are applied to
Spoken ==
    Heard \cup WakeupCalls \cup CloseDeviceCalls \cup OrdinalCalls
          \cup EnterChatCalls \cup {g.text : g \in GreetedCommands}
          \cup {b.text : b \in BareRecordCodes} \cup ExitCalls
          \cup {c.text : c \in CloseModeCalls}

\* what the text functions yield in a turn on the utterance text: the
\* cleaned text of process_command, the classifications and extractions made
\* on it, and the choices the handlers make by its keywords; the device and
\* archive handlers clean the cleaned text once more
Facts(text) ==
    LET cleaned_text == _clean_text(text)
    IN  [cleaned_text |-> cleaned_text,
         _is_pure_wakeup_call |-> _is_pure_wakeup_call(cleaned_text),
         _is_exit_command |-> [c \in BOOLEAN |-> _is_exit_command(cleaned_text, c)],
         _looks_like_selection_command |-> _looks_like_selection_command(cleaned_text),
         _is_archive_query_by_name |-> _is_archive_query_by_name(cleaned_text),
         _is_explicit_device_control |-> _is_explicit_device_control(cleaned_text),
         _extract_selection_index |-> _extract_selection_index(cleaned_text),
         _extract_column_number |-> _extract_column_number(cleaned_text),
         _extract_temperature |-> _extract_temperature(cleaned_text),
         recleaned_text |-> _clean_text(cleaned_text),
         _correct_rodent_repeller_text |->
             _correct_rodent_repeller_text(_clean_text(cleaned_text)),
         _extract_archive_query_value |->
             _extract_archive_query_value(text, _clean_text(cleaned_text)),
         LenientSelection |-> LenientSelection(cleaned_text),
         DeviceTarget |-> DeviceTarget(cleaned_text),
         TemperatureAction |-> TemperatureAction(cleaned_text),
         VentilationAction |-> VentilationAction(cleaned_text),
         CabinetAction |-> CabinetAction(cleaned_text),
         DehumidifierChoice |-> DehumidifierChoice(_clean_text(cleaned_text)),
         AirConditionerCommand |-> AirConditionerCommand(_clean_text(cleaned_text)),
         RodentChoice |->
             RodentChoice(_correct_rodent_repeller_text(_clean_text(cleaned_text)))]

\* Facts on the utterances, computed once
Known == [text \in Spoken |-> Facts(text)]

\* except Exception in process_command (l.352-356)
Caught(done) ==
    IF done.raised
    THEN \* 处理命令时出现错误，请重试
         [done EXCEPT !.response = "error_retry", !.raised = FALSE]
    ELSE done

\* process_command without the test of is_cleaning_up (l.302-304)
process_command_ungated(self, text, env) ==
    IF Len(text) = 0 THEN Reply(self, ReturnsNone, NoSend)
    ELSE Caught(Dispatch(self, text, Known[text], env))

process_command(self, text, env) ==
    IF Len(text) = 0 THEN Reply(self, ReturnsNone, NoSend)
    ELSE IF self.is_cleaning_up
    THEN \* 系统正在关闭，无法处理命令
         Reply(self, "shutting_down", NoSend)
    ELSE Caught(Dispatch(self, text, Known[text], env))

\* cleanup (l.2542-2570): the flag is set and the conversation state reset
cleanup(self) ==
    [self EXCEPT !.is_cleaning_up = TRUE,
                 !.conversation_state = reset_conversation_state]

(***************************************************************************)
(* The state machine: one CommandHandler object and the calls made on it.  *)
(***************************************************************************)
VARIABLES
    conversation_state,     \* self.conversation_state
    chat_mode,              \* self.chat_mode
    is_exited,              \* self.is_exited
    is_cleaning_up,         \* self.is_cleaning_up
    socketio,               \* self.socketio: "None" or "present"
    ollama_client,          \* "unset" (no attribute yet), "None" or "ready"
    turn,                   \* the process_command call that led to this
                            \* state: its text, the conversation state it
                            \* started in, the value returned, the messages
                            \* emitted and the number of
                            \* send_websocket_message calls; None when the
                            \* last step was not such a call
    in_flight,              \* per calling thread, the process_command call
                            \* it is inside of: where in it, its text and
                            \* what the text functions yield on it
    assistant,              \* the XiaoZhiAssistant object (main.py): is_awake,
                            \* is_exited, and where its playback worker is
    voice_recognizer,       \* the VoiceRecognizer object: _is_speaking,
                            \* _last_speech_end_time, and the call of
                            \* record_until_silence it is inside of
    now,                    \* time.time(), in ticks of one audio chunk
    conversation_history    \* OllamaClient.conversation_history

vars == <<conversation_state, chat_mode, is_exited, is_cleaning_up, socketio,
          ollama_client, turn, in_flight, assistant, voice_recognizer, now,
          conversation_history>>

\* self._playback_cooldown = 0.5 (voice_recognizer.py l.52), in ticks: a
\* chunk is 1024 frames at 16000 Hz (l.32, l.35), 0.064 s, and 0.5 s is over
\* when 8 chunks have passed
_playback_cooldown == 8

\* XiaoZhiAssistant.__init__ (main.py l.93-94); the playback worker waits
\* for a text to speak
asleep == [is_awake |-> FALSE, is_exited |-> TRUE, playback |-> "waiting"]

\* no call of record_until_silence is going on; result is what the last
\* call returned and overlapped whether set_speaking_status(True) was called
\* while it recorded
NotRecording == [pc |-> "idle", overlapped |-> FALSE, result |-> "None"]

\* VoiceRecognizer.__init__ (voice_recognizer.py l.50-51)
listening ==
    [_is_speaking |-> FALSE, _last_speech_end_time |-> 0, recording |-> NotRecording]

\* the time at which the program starts: long after time 0
started == _playback_cooldown

\* the threads that call process_command
Threads == {1, 2}

\* a thread outside process_command; answered tells that its last call sent
\* open_cabinet for the column request that is, or was last, pending
NoCall == [pc |-> "idle", text |-> <<>>, known |-> <<>>, answered |-> FALSE]

\* the object as the handlers see it
Self ==
    [conversation_state |-> conversation_state,
     chat_mode |-> chat_mode,
     is_exited |-> is_exited,
     is_cleaning_up |-> is_cleaning_up,
     socketio |-> socketio,
     ollama_client |-> ollama_client]

\* the object becomes s
Becomes(s) ==
    /\ conversation_state' = s.conversation_state
    /\ chat_mode' = s.chat_mode
    /\ is_exited' = s.is_exited
    /\ is_cleaning_up' = s.is_cleaning_up
    /\ socketio' = s.socketio
    /\ ollama_client' = s.ollama_client

\* what the language-model service does in a turn
LlmOutcomes == {"down", "reply", "timeout"}

\* what a turn meets outside the object
Environments == [emit_ok : BOOLEAN, llm : LlmOutcomes]

\* CommandHandler.__init__ (l.16-93); the background initialisation has not
\* run yet
Init ==
    /\ conversation_state = reset_conversation_state
    /\ chat_mode = FALSE
    /\ is_exited = FALSE
    /\ is_cleaning_up = FALSE
    /\ socketio \in {"None", "present"}
    /\ ollama_client = "unset"
    /\ turn = None
    /\ in_flight = [t \in Threads |-> NoCall]
    /\ assistant = asleep
    /\ voice_recognizer = listening
    /\ now = started
    /\ conversation_history = <<>>

\* a call process_command(text) that meets env, run from its first statement
\* to its return with no other thread in between
Turn(text, env) ==
    \E done \in {process_command(Self, text, env)} :
        /\ Becomes(done.self)
        /\ turn' = Some([text |-> text, before |-> conversation_state,
                         response |-> done.response,
                         sent |-> done.sent, calls |-> done.calls])
        /\ UNCHANGED <<in_flight, assistant, voice_recognizer, now,
                   conversation_history>>

ProcessCommand == \E text \in Heard, env \in Environments : Turn(text, env)

\* ollama_task of init_ollama_async (l.112-124), in its own thread: the
\* client is constructed, or the attribute is set to None when that fails
OllamaTask ==
    /\ ollama_client = "unset"
    /\ \E made \in {"ready", "None"} : ollama_client' = made
    /\ turn' = None
    /\ UNCHANGED <<conversation_state, chat_mode, is_exited, is_cleaning_up,
                   socketio, in_flight,
                   assistant, voice_recognizer, now,
                   conversation_history>>

\* a call cleanup()
Cleanup ==
    /\ ~is_cleaning_up
    /\ Becomes(cleanup(Self))
    /\ turn' = None
    /\ UNCHANGED <<in_flight, assistant, voice_recognizer, now,
                   conversation_history>>

\* a call reset_conversation_state() from outside a turn (the assistant's
\* _handle_sleep, main.py l.884-900)
ResetConversationState ==
    /\ conversation_state # reset_conversation_state
    /\ conversation_state' = reset_conversation_state
    /\ turn' = None
    /\ UNCHANGED <<chat_mode, is_exited, is_cleaning_up, socketio,
                   ollama_client, in_flight,
                   assistant, voice_recognizer, now,
                   conversation_history>>

Next ==
    \/ ProcessCommand
    \/ OllamaTask
    \/ Cleanup
    \/ ResetConversationState

Spec == Init /\ [][Next]_vars

(***************************************************************************)
(* Properties of a turn.  Called holds in the states a process_command     *)
(* call has just led to; Last is that call.                                *)
(***************************************************************************)
Called == IsSome(turn)
Last == Val(turn)

\* the call was a turn of the running handler on a non-empty text
Served == Called /\ Len(Last.text) > 0 /\ ~is_cleaning_up

\* every send_websocket_message call of the turn put its message on the socket
Delivered == Len(Last.sent) = Last.calls

\* no waiting flag is set in conversation state cs and chat mode is off
Idle(cs) ==
    /\ ~cs.waiting_for_column
    /\ ~cs.waiting_for_temperature
    /\ ~cs.expecting_selection
    /\ ~chat_mode

\* the turn started while waiting for a column and was neither a wake-up
\* call nor an exit command
ColumnTurn ==
    /\ Served
    /\ Last.before.waiting_for_column
    /\ ~Known[Last.text]._is_pure_wakeup_call
    /\ ~Known[Last.text]._is_exit_command[chat_mode]

\* C1: every turn taken while waiting_for_column is set ends in one of two
\* ways: when the utterance yields a column number n (a digit, a Chinese
\* numeral or an ordinal form such as 第三列) exactly one open_cabinet message
\* with colNo = n is emitted and the conversation is idle again, with
\* pending_action None; when it yields none, nothing is emitted, the reply
\* asks for the column again and waiting_for_column stays set.
C1_AwaitingColumnClosure ==
    (ColumnTurn /\ Delivered) =>
        LET column_number == Known[Last.text]._extract_column_number
        IN  IF IsSome(column_number)
            THEN /\ Len(Last.sent) = 1
                 /\ Last.sent[1].type = "open_cabinet"
                 /\ Last.sent[1].params = [colNo |-> Val(column_number)]
                 /\ Idle(conversation_state)
                 /\ conversation_state.pending_action = "None"
            ELSE /\ Last.sent = <<>>
                 /\ Last.response = "ask_column_again"
                 /\ conversation_state.waiting_for_column

\* C1: a turn that started while waiting for a column on 第三列, which yields
\* column 3, and that selected record 3 instead and left the wait standing
C1_OrdinalColumnSelectsRecord ==
    /\ ColumnTurn /\ Delivered
    /\ Last.text = <<"di", "san", "lie">>
    /\ Known[Last.text]._extract_column_number = Some(<<"3">>)
    /\ Len(Last.sent) = 1
    /\ Last.sent[1].type = "select_record"
    /\ Last.response = "selected"
    /\ conversation_state.waiting_for_column
    /\ conversation_state.pending_action = "open"

\* C2: every call of process_command, on any text (empty or not) and in any
\* conversation state, returns a response string and never None, also when a
\* pending column is resolved and when the socket or the language model fails.
C2_AlwaysAResponse == Called => Last.response # ReturnsNone

\* C2: a turn that resolved the pending column, put open_cabinet on the
\* socket and returned None
C2_ResolvedColumnReturnsNone ==
    /\ Served
    /\ Last.before.waiting_for_column
    /\ ~conversation_state.waiting_for_column
    /\ Len(Last.sent) = 1
    /\ Last.sent[1].type = "open_cabinet"
    /\ Last.response = ReturnsNone

\* C3: in every reachable state the conversation is idle (no waiting flag
\* set, chat mode off) exactly when pending_action is None.
C3_IdleIffNoPendingAction ==
    Idle(conversation_state) <=> conversation_state.pending_action = "None"

\* C3: a pending action is recorded only while a wait is on: pending_action
\* is 'open' only while waiting_for_column is set, and 'set', 'increase' or
\* 'decrease' only while waiting_for_temperature is set; an idle conversation
\* has pending_action None.
C3_PendingActionOnlyWhileWaiting ==
    /\ conversation_state.pending_action \in
           {"None", "open", "set", "increase", "decrease"}
    /\ conversation_state.pending_action = "open" =>
           conversation_state.waiting_for_column
    /\ conversation_state.pending_action \in {"set", "increase", "decrease"} =>
           conversation_state.waiting_for_temperature
    /\ Idle(conversation_state) => conversation_state.pending_action = "None"

\* C3: an archive query has just set expecting_selection, so the conversation
\* is not idle, and pending_action is None
C3_AwaitingSelectionWithoutPendingAction ==
    /\ Served
    /\ Idle(Last.before)
    /\ conversation_state.expecting_selection
    /\ ~conversation_state.waiting_for_column
    /\ ~conversation_state.waiting_for_temperature
    /\ conversation_state.pending_action = "None"

\* C3: a cabinet request without a column has just set waiting_for_column
\* and recorded the pending action
C3_PendingActionRecorded ==
    /\ Served
    /\ Idle(Last.before)
    /\ conversation_state.waiting_for_column
    /\ conversation_state.pending_action = "open"

\* the waiting flags and the chat mode that are on in conversation state cs
ModesOn(cs) ==
    {m \in {"waiting_for_column", "waiting_for_temperature",
            "expecting_selection", "chat_mode"} :
        \/ m = "waiting_for_column" /\ cs.waiting_for_column
        \/ m = "waiting_for_temperature" /\ cs.waiting_for_temperature
        \/ m = "expecting_selection" /\ cs.expecting_selection
        \/ m = "chat_mode" /\ chat_mode}

\* C4: the conversation is in one mode at a time: in every reachable state at
\* most one of waiting_for_column, waiting_for_temperature,
\* expecting_selection and chat_mode is true.
C4_OneModeAtATime == Cardinality(ModesOn(conversation_state)) <= 1

\* C4: while a selection was pending, a request to open a cabinet without a
\* column has set waiting_for_column and left expecting_selection set
C4_ColumnWaitOverPendingSelection ==
    /\ Served
    /\ Last.text = <<"da", "kai", "gui", "zi">>
    /\ Last.before.expecting_selection
    /\ ~Last.before.waiting_for_column
    /\ conversation_state.expecting_selection
    /\ conversation_state.waiting_for_column

(***************************************************************************)
(* Calls from two threads.  process_command holds no lock and neither do   *)
(* its callers, so the statements of two calls interleave.  A call is      *)
(* taken in the steps that matter for a pending column request: the entry  *)
(* (l.299-304), the classification up to the read of waiting_for_column    *)
(* (l.308-334), and in _handle_column_input the update of the conversation *)
(* state (l.2000-2030) and the send of open_cabinet (l.2034).  The other   *)
(* handlers run in one step.                                               *)
(***************************************************************************)
\* what the two threads say
Concurrent ==
    { <<"da", "kai", "gui", "zi">>, <<"3", "lie">>, <<"di", "er", "ge">>, <<"tui", "chu">>, <<"cha", "xun", "dang", "an", "0", "5", "6", "7">> }

\* thread t moves to place pc of its call
Goes(t, pc) == in_flight' = [in_flight EXCEPT ![t].pc = pc]

\* thread t returns from its call; a call that raised a new column request
\* clears the answered marks
Returns(t, done) ==
    IF done.self.conversation_state.waiting_for_column
       /\ ~conversation_state.waiting_for_column
    THEN in_flight' = [u \in Threads |->
                          IF u = t THEN NoCall
                          ELSE [in_flight[u] EXCEPT !.answered = FALSE]]
    ELSE in_flight' = [in_flight EXCEPT
                           ![t] = [NoCall EXCEPT !.answered = in_flight[t].answered]]

\* wake-up call, exit and selection are decided before waiting_for_column
\* is read (l.311-331)
Precedes(known) ==
    \/ known._is_pure_wakeup_call
    \/ known._is_exit_command[chat_mode]
    \/ known._looks_like_selection_command

\* thread t calls process_command(text): the text is not empty and
\* is_cleaning_up is read False (l.299-304)
Enter(t) ==
    /\ in_flight[t].pc = "idle"
    /\ ~is_cleaning_up
    /\ \E text \in Concurrent :
           in_flight' = [in_flight EXCEPT ![t].pc = "entered",
                                          ![t].text = text,
                                          ![t].known = Known[text]]
    /\ UNCHANGED <<conversation_state, chat_mode, is_exited, is_cleaning_up,
                   socketio, ollama_client, turn,
                   assistant, voice_recognizer, now,
                   conversation_history>>

\* l.308-331: the call is a wake-up call, an exit or a selection and is
\* handled as such
Precede(t, known) ==
    /\ in_flight[t].pc = "entered"
    /\ Precedes(known)
    /\ \E env \in Environments :
           \E done \in {Caught(Dispatch(Self, in_flight[t].text, known, env))} :
               Becomes(done.self) /\ Returns(t, done)
    /\ UNCHANGED <<turn, assistant, voice_recognizer, now,
                   conversation_history>>

\* l.334 reads waiting_for_column True: _handle_column_input is entered
EnterColumnInput(t, known) ==
    /\ in_flight[t].pc = "entered"
    /\ ~Precedes(known)
    /\ conversation_state.waiting_for_column
    /\ Goes(t, "column_input")
    /\ UNCHANGED <<conversation_state, chat_mode, is_exited, is_cleaning_up,
                   socketio, ollama_client, turn,
                   assistant, voice_recognizer, now,
                   conversation_history>>

\* l.334 reads waiting_for_column False: the archive, device or language
\* model handler runs (l.339-350)
HandleOther(t, known) ==
    /\ in_flight[t].pc = "entered"
    /\ ~Precedes(known)
    /\ ~conversation_state.waiting_for_column
    /\ \E env \in Environments :
           \E done \in {Caught(Dispatch(Self, in_flight[t].text, known, env))} :
               Becomes(done.self) /\ Returns(t, done)
    /\ UNCHANGED <<turn, assistant, voice_recognizer, now,
                   conversation_history>>

\* _handle_column_input finds a column number and updates the conversation
\* state (l.2000-2030)
ResolveColumn(t, known) ==
    /\ in_flight[t].pc = "column_input"
    /\ conversation_state.pending_action # "close"
    /\ ~Falsy(known._extract_column_number)
    /\ Becomes(ColumnResolved(Self))
    /\ Goes(t, "updated")
    /\ UNCHANGED <<turn, assistant, voice_recognizer, now,
                   conversation_history>>

\* _handle_column_input finds no column number and asks again (l.2041-2045),
\* or closes all cabinets (l.2000-2018)
AskColumnAgain(t, known) ==
    /\ in_flight[t].pc = "column_input"
    /\ conversation_state.pending_action = "close"
           \/ Falsy(known._extract_column_number)
    /\ \E env \in Environments :
           \E done \in {Caught(_handle_column_input(Self, known.cleaned_text,
                                   in_flight[t].text, known, env))} :
               Becomes(done.self) /\ Returns(t, done)
    /\ UNCHANGED <<turn, assistant, voice_recognizer, now,
                   conversation_history>>

\* send_websocket_message('open_cabinet', {'colNo': column_number}) (l.2034)
\* and the return
SendOpenCabinet(t, known) ==
    /\ in_flight[t].pc = "updated"
    /\ \E env \in Environments :
           \E opening \in {send_websocket_message(Self, "open_cabinet",
                               [colNo |-> Val(known._extract_column_number)],
                               in_flight[t].text, env)} :
               in_flight' = [in_flight EXCEPT
                   ![t] = [NoCall EXCEPT !.answered = Success(opening)]]
    /\ UNCHANGED <<conversation_state, chat_mode, is_exited, is_cleaning_up,
                   socketio, ollama_client, turn,
                   assistant, voice_recognizer, now,
                   conversation_history>>

\* Facts on the text of the call thread t is inside of
Saying(t) == in_flight[t].known

NextConcurrent ==
    \/ \E t \in Threads : Enter(t)
    \/ \E t \in Threads : Precede(t, Saying(t))
    \/ \E t \in Threads : EnterColumnInput(t, Saying(t))
    \/ \E t \in Threads : HandleOther(t, Saying(t))
    \/ \E t \in Threads : ResolveColumn(t, Saying(t))
    \/ \E t \in Threads : AskColumnAgain(t, Saying(t))
    \/ \E t \in Threads : SendOpenCabinet(t, Saying(t))
    \/ OllamaTask

SpecConcurrent == Init /\ [][NextConcurrent]_vars

\* thread t has read waiting_for_column and has not yet made the last write
\* of its call to conversation_state
BetweenReadAndWrite(t) == in_flight[t].pc = "column_input"

\* C5: calls of process_command from two threads are serialized on the
\* conversation state: at most one call at a time is between its first read
\* and its last write of conversation_state, so two calls that answer one
\* pending column request do not both see waiting_for_column True and both
\* emit open_cabinet.
C5_TurnsSerialized ==
    /\ Cardinality({t \in Threads : BetweenReadAndWrite(t)}) <= 1
    /\ Cardinality({t \in Threads : in_flight[t].answered}) <= 1

\* C5: both threads have sent open_cabinet for the same column request
C5_BothOpenedTheCabinet ==
    \A t \in Threads : in_flight[t].pc = "idle" /\ in_flight[t].answered

\* C6: a wake-up call comes first: in every conversation state, whichever of
\* waiting_for_column, waiting_for_temperature and expecting_selection is
\* set, a turn on a greeting word joined with a form of 小智, in either order,
\* is answered with a greeting, whatever the socket and the language model do.
C6_WakeupFirst ==
    ~is_cleaning_up =>
        \A text \in WakeupCalls, env \in Environments :
            process_command(Self, text, env).response = _get_greeting_response

\* C6: a wake-up call made while waiting for a column has been answered
\* with a greeting
C6_GreetedWhileWaiting ==
    /\ Served
    /\ Last.text \in WakeupCalls
    /\ Last.before.waiting_for_column
    /\ Last.response = _get_greeting_response

\* C7: a turn taken as a wake-up call changes nothing: it emits no websocket
\* message, leaves every field of conversation_state (waiting_for_column,
\* waiting_for_temperature, expecting_selection, pending_action,
\* pending_context and the rest) as it was, and returns a greeting.
C7_WakeupChangesNothing ==
    ~is_cleaning_up =>
        \A text \in {t \in Spoken : Known[t]._is_pure_wakeup_call} :
            \A env \in Environments :
                \E done \in {process_command(Self, text, env)} :
                    /\ done.sent = <<>>
                    /\ done.calls = 0
                    /\ done.self.conversation_state = conversation_state
                    /\ done.self = Self
                    /\ done.response = _get_greeting_response

\* C7: a wake-up call made while a temperature was awaited and an action was
\* pending has been answered, and the wait and the action are as before
C7_WakeupKeptTheWait ==
    /\ Served
    /\ Known[Last.text]._is_pure_wakeup_call
    /\ Last.before.waiting_for_temperature
    /\ Last.before.pending_action # "None"
    /\ Last.sent = <<>>
    /\ conversation_state = Last.before
    /\ Last.response = _get_greeting_response

\* the turn on text was handled as an exit: done is what it returned and
\* the object it left
HandledAsExit(done) ==
    \/ done.response \in {"farewell", "chat_farewell"}
    \/ done.self.is_exited /\ ~is_exited

\* C8: a close verb (关闭 or a word the cleaning turns into it) followed at
\* once by a device word (柜子, 列, 温度, 湿度, 通风, 状态 and the other device
\* words) is no exit: _is_exit_command returns False on it and, in every
\* conversation state, process_command does not handle the turn as an exit:
\* no farewell is returned, is_exited is not set and a conversation that
\* was waiting is not reset.
C8_CloseDeviceIsNoExit ==
    /\ \A text \in CloseDeviceCalls, c \in BOOLEAN : ~Known[text]._is_exit_command[c]
    /\ ~is_cleaning_up =>
           \A text \in CloseDeviceCalls, env \in Environments :
               \E done \in {process_command(Self, text, env)} :
                   /\ ~HandledAsExit(done)
                   /\ conversation_state # reset_conversation_state =>
                          done.self.conversation_state # reset_conversation_state

\* C8: 关闭柜子 said while a selection was pending has been sent on as
\* close_cabinet, with no farewell and the selection still pending
C8_ClosedTheCabinet ==
    /\ Served
    /\ Last.text \in CloseDeviceCalls
    /\ Last.before.expecting_selection
    /\ Len(Last.sent) = 1
    /\ Last.sent[1].type = "close_cabinet"
    /\ Last.response # "farewell"
    /\ ~is_exited
    /\ conversation_state.expecting_selection

C10_OrdinalIsSelection ==
    /\ \A text \in OrdinalCalls : Known[text]._looks_like_selection_command
    /\ ~is_cleaning_up =>
           \A text \in OrdinalCalls, env \in Environments :
               \E done \in {process_command(Self, text, env)} :
                   /\ done.response \in
                          {"selected", "ask_selection", "selection_send_failed"}
                   /\ done.calls <= 1
                   /\ \A i \in DOMAIN done.sent : done.sent[i].type = "select_record"
                   /\ done.self.conversation_state.waiting_for_column
                          = conversation_state.waiting_for_column

\* C10: 第二个 said while a column was awaited has selected record 2
C10_SelectedWhileWaitingForColumn ==
    /\ Served
    /\ Last.text \in OrdinalCalls
    /\ Last.before.waiting_for_column
    /\ Last.response = "selected"
    /\ Len(Last.sent) = 1
    /\ Last.sent[1].type = "select_record"
    /\ Last.sent[1].params = [index |-> 1]

\* the turn was handled by _handle_selection
SelectionTurn ==
    /\ Served
    /\ ~Known[Last.text]._is_pure_wakeup_call
    /\ ~Known[Last.text]._is_exit_command[chat_mode]
    /\ Known[Last.text]._looks_like_selection_command

\* the 1-based index _handle_selection works with: the one
\* _extract_selection_index finds, else the one of the looser match
SelectionIndex(known) ==
    IF IsSome(known._extract_selection_index)
    THEN known._extract_selection_index
    ELSE known.LenientSelection

\* C11: when a selection turn extracts the 1-based index k and the socket
\* takes the message, exactly one select_record message with index k - 1 is
\* emitted and the conversation is idle afterwards: expecting_selection is
\* False and no other waiting flag is set, whatever the state was before.
C11_SelectionEndsIdle ==
    (SelectionTurn /\ IsSome(SelectionIndex(Known[Last.text]))
                   /\ Last.calls = 1 /\ Delivered) =>
        /\ Len(Last.sent) = 1
        /\ Last.sent[1].type = "select_record"
        /\ Last.sent[1].params =
               [index |-> Val(SelectionIndex(Known[Last.text])) - 1]
        /\ Idle(conversation_state)

\* C11: 第二个 said while a column was awaited has sent select_record with
\* index 1, and the conversation still waits for the column
C11_SelectedAndStillWaiting ==
    /\ SelectionTurn
    /\ Last.before.waiting_for_column
    /\ Last.sent = <<[event |-> "command", type |-> "select_record",
                      params |-> [index |-> 1], user_text |-> Last.text]>>
    /\ ~conversation_state.expecting_selection
    /\ conversation_state.waiting_for_column
    /\ conversation_state.pending_action = "open"

\* C12: when a turn is taken as a selection and no index can be extracted
\* from it, by _extract_selection_index or by the looser match that follows,
\* nothing is emitted, the reply asks which record to select and
\* expecting_selection is False afterwards; expecting_selection is False
\* already when _extract_selection_index alone finds nothing.
C12_NoIndexAsksAgain ==
    /\ (SelectionTurn /\ IsNone(SelectionIndex(Known[Last.text]))) =>
           /\ Last.sent = <<>>
           /\ Last.calls = 0
           /\ Last.response = "ask_selection"
           /\ ~conversation_state.expecting_selection
    /\ (SelectionTurn /\ IsNone(Known[Last.text]._extract_selection_index)) =>
           ~conversation_state.expecting_selection

\* C12: 打开第一列, which looks like a selection and yields no index, said
\* while a selection was expected, has been answered with the question and
\* the selection is no longer expected
C12_AskedWhichRecord ==
    /\ SelectionTurn
    /\ IsNone(SelectionIndex(Known[Last.text]))
    /\ Last.before.expecting_selection
    /\ Last.response = "ask_selection"
    /\ Last.sent = <<>>
    /\ ~conversation_state.expecting_selection

\* C13: slot values are not negative: the index of every select_record
\* message emitted is an integer >= 0 and the 1-based index extracted from a
\* selection utterance is >= 1, also for digit ordinals such as 第0条.
C13_SelectionIndexNotNegative ==
    Served =>
        /\ \A i \in DOMAIN Last.sent :
               Last.sent[i].type = "select_record" =>
                   Last.sent[i].params.index >= 0
        /\ (SelectionTurn /\ IsSome(SelectionIndex(Known[Last.text]))) =>
               Val(SelectionIndex(Known[Last.text])) >= 1

\* C13: 第0条 has been sent on as select_record with index -1
C13_NegativeIndexSent ==
    /\ SelectionTurn
    /\ Known[Last.text]._extract_selection_index = Some(0)
    /\ Len(Last.sent) = 1
    /\ Last.sent[1].type = "select_record"
    /\ Last.sent[1].params.index = 0 - 1
    /\ Last.response = "selected"

\* the numerals of an open command: 一 .. 十 and 1 .. 10, each with the column
\* number it names as send_websocket_message carries it
ColumnNumerals ==
    {[said |-> chinese_to_digit[i][1], colNo |-> chinese_to_digit[i][2]] :
         i \in {k \in DOMAIN chinese_to_digit :
                    Len(chinese_to_digit[k][1]) = 1 /\ chinese_to_digit[k][1] # <<"liang">>}}
    \cup {[said |-> chinese_to_digit[i][2], colNo |-> chinese_to_digit[i][2]] :
         i \in {k \in DOMAIN chinese_to_digit : Len(chinese_to_digit[k][1]) = 1}}

\* the open commands naming a column: 打开第n列柜子, 打开第n列, 打开n列, 打开第n
OpenColumnCalls ==
    UNION {{[text |-> <<"da", "kai", "di">> \o n.said \o <<"lie", "gui", "zi">>, colNo |-> n.colNo],
            [text |-> <<"da", "kai", "di">> \o n.said \o <<"lie">>, colNo |-> n.colNo],
            [text |-> <<"da", "kai">> \o n.said \o <<"lie">>, colNo |-> n.colNo],
            [text |-> <<"da", "kai", "di">> \o n.said, colNo |-> n.colNo]} :
               n \in ColumnNumerals}

\* C14: an open command naming column n, in any of the phrasings
\* 打开第n列柜子, 打开第n列, 打开n列, 打开第n with a word or digit numeral, taken
\* while the conversation is idle and the socket works, emits exactly one
\* message, open_cabinet with colNo = n, is answered with the confirmation
\* for the column, and leaves the conversation idle.
C14_OpenNamedColumn ==
    \A call \in OpenColumnCalls :
        (Served /\ Last.text = call.text /\ Idle(Last.before)
                /\ socketio = "present" /\ Delivered) =>
            /\ Len(Last.sent) = 1
            /\ Last.sent[1].type = "open_cabinet"
            /\ Last.sent[1].params = [colNo |-> call.colNo]
            /\ Last.response = "opening_column"
            /\ Idle(conversation_state)

\* C14: 打开第一列 said while idle has been taken as a selection: the reply
\* asks which record to select and no open_cabinet message was emitted
C14_OpenFirstColumnTakenAsSelection ==
    /\ Served
    /\ \E call \in OpenColumnCalls : call.text = Last.text /\ call.colNo = <<"1">>
    /\ Idle(Last.before)
    /\ socketio = "present"
    /\ Known[Last.text]._looks_like_selection_command
    /\ Last.response = "ask_selection"
    /\ Last.sent = <<>>

\* the open commands that name no column: the bare verb 打开, and 打开柜子
OpenWithoutColumn == {<<"da", "kai">>, <<"da", "kai", "gui", "zi">>}

\* C15: an open command that names no column - the bare verb 打开 or 打开柜子
\* without a numeral - taken while the conversation is idle emits no
\* message, sets waiting_for_column with pending_action 'open' and is
\* answered with the question which column to open.
C15_OpenWithoutColumnAsks ==
    (Served /\ Last.text \in OpenWithoutColumn /\ Idle(Last.before)) =>
        /\ Last.sent = <<>>
        /\ Last.calls = 0
        /\ conversation_state.waiting_for_column
        /\ conversation_state.pending_action = "open"
        /\ Last.response = "ask_column"

\* C15: the bare verb 打开 said while idle has gone to the language model:
\* an ai_response message was emitted and no column is awaited
C15_BareOpenWentToLanguageModel ==
    /\ Served
    /\ Last.text = <<"da", "kai">>
    /\ Idle(Last.before)
    /\ ~Known[Last.text]._is_explicit_device_control
    /\ Len(Last.sent) = 1
    /\ Last.sent[1].type = "ai_response"
    /\ ~conversation_state.waiting_for_column
    /\ conversation_state.pending_action = "None"

\* the close-cabinet commands: the entries of close_cabinet_keywords said as
\* they stand, and 关闭柜子 with a column numeral
CloseCabinetCalls ==
    {close_cabinet_keywords[i] : i \in DOMAIN close_cabinet_keywords}
    \cup {<<"guan", "bi", "3", "lie", "gui", "zi">>, <<"guan", "bi", "di", "san", "lie", "gui", "zi">>}

\* C16: every close-cabinet command, with or without a column numeral, taken
\* while the conversation is idle and the socket works, emits exactly one
\* message, close_cabinet with the payload action 'off' and no column, does
\* not set waiting_for_column and leaves the conversation idle.
C16_CloseCabinetClosesAll ==
    (Served /\ Last.text \in CloseCabinetCalls /\ Idle(Last.before)
            /\ socketio = "present" /\ Delivered) =>
        /\ Len(Last.sent) = 1
        /\ Last.sent[1].type = "close_cabinet"
        /\ Last.sent[1].params = [action |-> "off"]
        /\ ~conversation_state.waiting_for_column
        /\ Idle(conversation_state)

\* C16: 关闭档案柜 said while idle has gone to the language model: the one
\* message emitted is ai_response, not close_cabinet
C16_CloseArchiveCabinetWentToLanguageModel ==
    /\ Served
    /\ Last.text = <<"guan", "bi", "dang", "an", "gui">>
    /\ Last.text \in CloseCabinetCalls
    /\ Idle(Last.before)
    /\ socketio = "present"
    /\ ~Known[Last.text]._is_explicit_device_control
    /\ Len(Last.sent) = 1
    /\ Last.sent[1].type = "ai_response"

\* C17: 查询档案0567 taken while the conversation is idle and the socket works
\* emits exactly one message, query_record with the query value "0567", and
\* sets expecting_selection; the handler does not look the record up: no
\* query result and no option to select from is stored by the turn.
C17_ArchiveQueryIsSentOn ==
    (Served /\ Last.text = <<"cha", "xun", "dang", "an", "0", "5", "6", "7">> /\ Idle(Last.before)
            /\ socketio = "present" /\ Delivered) =>
        /\ Len(Last.sent) = 1
        /\ Last.sent[1].type = "query_record"
        /\ Last.sent[1].params = [name |-> <<"0", "5", "6", "7">>]
        /\ conversation_state.expecting_selection
        /\ ~conversation_state.waiting_for_column
        /\ ~conversation_state.waiting_for_temperature
        /\ conversation_state.last_query_results = <<>>
        /\ conversation_state.available_options = <<>>

\* C17: 查询档案0567 said while idle has been sent on as query_record and a
\* selection is expected
C17_QueriedArchive0567 ==
    /\ Served
    /\ Last.text = <<"cha", "xun", "dang", "an", "0", "5", "6", "7">>
    /\ Idle(Last.before)
    /\ Known[Last.text]._is_archive_query_by_name
    /\ Known[Last.text]._extract_archive_query_value = Some(<<"0", "5", "6", "7">>)
    /\ Len(Last.sent) = 1
    /\ Last.sent[1].type = "query_record"
    /\ Last.response = "querying_archive"
    /\ conversation_state.expecting_selection

\* the turn started while waiting for a temperature only, and was no
\* wake-up call, no exit command and no selection
TemperatureTurn ==
    /\ Served
    /\ Last.before.waiting_for_temperature
    /\ ~Last.before.waiting_for_column
    /\ ~Last.before.expecting_selection
    /\ ~Known[Last.text]._is_pure_wakeup_call
    /\ ~Known[Last.text]._is_exit_command[chat_mode]
    /\ ~Known[Last.text]._looks_like_selection_command

\* C18: once a temperature command without a value has set
\* waiting_for_temperature, the next turn that is no wake-up call, no exit
\* and no selection is taken as the temperature: when it yields a value,
\* exactly one control_thermo_hygro_sensor message with the pending action
\* is emitted and the conversation is idle again; when it yields none,
\* nothing is emitted, the question for the temperature is returned and
\* waiting_for_temperature stays set.
C18_AwaitingTemperatureClosure ==
    (TemperatureTurn /\ socketio = "present" /\ Delivered) =>
        IF IsSome(Known[Last.text]._extract_temperature)
        THEN /\ Len(Last.sent) = 1
             /\ Last.sent[1].type = "control_thermo_hygro_sensor"
             /\ Last.sent[1].params.action = Last.before.pending_action
             /\ Idle(conversation_state)
        ELSE /\ Last.sent = <<>>
             /\ Last.response = "ask_temperature"
             /\ conversation_state.waiting_for_temperature

\* C18: 温度调到25度 said while a temperature was awaited has been sent on as
\* control_thermo_hygro_sensor, and the conversation still waits for the
\* temperature
C18_TemperatureGivenAndStillWaiting ==
    /\ TemperatureTurn
    /\ Last.text = <<"wen", "du", "tiao2", "dao", "2", "5", "du">>
    /\ IsSome(Known[Last.text]._extract_temperature)
    /\ Len(Last.sent) = 1
    /\ Last.sent[1].type = "control_thermo_hygro_sensor"
    /\ conversation_state.waiting_for_temperature
    /\ conversation_state.pending_action = Last.before.pending_action

(***************************************************************************)
(* The text functions called on their own.  A call record holds the        *)
(* function, the text it is given and the values returned so far;          *)
(* _clean_text is applied to the text and then to its own result.          *)
(***************************************************************************)
\* the characters of the texts _clean_text is given: parts of the filler
\* words 那个 这个 and of the corrections 关毕 柜了, and the blank
CleanChars == {"guan", "bi2", "gui", "le", "na", "zhe", "ge", " "}

\* the longest text _clean_text is given
MaxLen == 4

CleanInputs == UNION {[1..m -> CleanChars] : m \in 0..MaxLen}

\* the column numbers of the round trip
Columns == 1..30

\* 一 .. 九
word_units == <<"yi", "er", "san", "si", "wu", "liu", "qi", "ba", "jiu">>

\* n as a Chinese numeral, as the keys of the table 一 .. 三十 write it
\* (l.2059-2066)
WordNumeral(n) ==
    IF n < 10 THEN <<word_units[n]>>
    ELSE (IF n < 20 THEN <<>> ELSE <<word_units[n \div 10]>>)
         \o <<"shi">>
         \o (IF n % 10 = 0 THEN <<>> ELSE <<word_units[n % 10]>>)

\* str(n)
DigitNumeral(n) ==
    IF n < 10 THEN <<DigitSeq[n + 1]>>
    ELSE <<DigitSeq[(n \div 10) + 1], DigitSeq[(n % 10) + 1]>>

\* what stands around the numeral in the patterns of _extract_column_number
\* (l.2490-2505): 第N列 N列 (and 柜 箱 相 贵 for 列), 第N号, N号, 打开N, 开N, 第N
column_renderings ==
    {<<<<"di">>, <<c>>>> : c \in {"lie", "gui", "xiang", "xiang2", "gui2"}}
    \cup {<<<<>>, <<c>>>> : c \in {"lie", "gui", "xiang", "xiang2", "gui2"}}
    \cup {<<<<"di">>, <<"hao">>>>, <<<<>>, <<"hao">>>>, <<<<"da", "kai">>, <<>>>>,
          <<<<"kai">>, <<>>>>, <<<<"di">>, <<>>>>}

\* the calls of _extract_column_number: column n written into a pattern as
\* a word numeral and as a digit numeral
ColumnInputs ==
    UNION {{[call |-> "_extract_column_number", column |-> DigitNumeral(n),
             text |-> r[1] \o numeral \o r[2], results |-> <<>>] :
                r \in column_renderings,
                numeral \in {WordNumeral(n), DigitNumeral(n)}} :
              n \in Columns}

\* the selection indexes of the round trip
Indexes == 1..20

\* the calls of the selection functions: index k said as 第k条 and 第k个 with
\* k a Chinese numeral 一 .. 二十, and as the bare digit string of k; column
\* holds k in digits
SelectionInputs ==
    UNION {{[call |-> "_extract_selection_index", column |-> DigitNumeral(k),
             text |-> t, results |-> <<>>] :
                t \in {<<"di">> \o WordNumeral(k) \o <<"tiao">>,
                       <<"di">> \o WordNumeral(k) \o <<"ge">>,
                       DigitNumeral(k)}} :
              k \in Indexes}

\* the pieces the raw replies of the model are made of: the two tags, the
\* halves of a split opening tag, a letter and the blank
think_pieces ==
    {think_open, think_close, <<"<", "t", "h", "i">>, <<"n", "k", ">">>,
     <<"a">>, <<" ">>}

\* the most pieces in a raw reply
MaxPieces == 5

RECURSIVE Joined(_)
Joined(ps) == IF Len(ps) = 0 THEN <<>> ELSE ps[1] \o Joined(Tail(ps))

\* the raw replies: response['message']['content'] (l.435)
RawReplies ==
    {Joined(ps) : ps \in UNION {[1..m -> think_pieces] : m \in 0..MaxPieces}}

InitText ==
    /\ conversation_state = reset_conversation_state
    /\ chat_mode = FALSE
    /\ is_exited = FALSE
    /\ is_cleaning_up = FALSE
    /\ socketio = "present"
    /\ ollama_client = "unset"
    /\ in_flight = [t \in Threads |-> NoCall]
    /\ assistant = asleep
    /\ voice_recognizer = listening
    /\ now = started
    /\ conversation_history = <<>>
    /\ turn \in {Some([call |-> "_clean_text", column |-> <<>>,
                       text |-> x, results |-> <<>>]) : x \in CleanInputs}
                \cup {Some(c) : c \in ColumnInputs}
                \cup {Some(c) : c \in SelectionInputs}
                \cup {Some([call |-> "_filter_think_tags", column |-> <<>>,
                             text |-> raw, results |-> <<>>]) :
                          raw \in RawReplies}

\* cleaned = self._clean_text(text), then self._clean_text(cleaned)
CleanText ==
    /\ Called
    /\ Last.call = "_clean_text"
    /\ Len(Last.results) < 2
    /\ turn' = Some([Last EXCEPT !.results =
                        Append(@, _clean_text(IF Len(@) = 0 THEN Last.text
                                              ELSE @[Len(@)]))])
    /\ UNCHANGED <<conversation_state, chat_mode, is_exited, is_cleaning_up,
                   socketio, ollama_client, in_flight,
                   assistant, voice_recognizer, now,
                   conversation_history>>

\* self._extract_column_number(text)
ExtractColumnNumber ==
    /\ Called
    /\ Last.call = "_extract_column_number"
    /\ Len(Last.results) = 0
    /\ turn' = Some([Last EXCEPT !.results =
                        <<_extract_column_number(Last.text)>>])
    /\ UNCHANGED <<conversation_state, chat_mode, is_exited, is_cleaning_up,
                   socketio, ollama_client, in_flight,
                   assistant, voice_recognizer, now,
                   conversation_history>>

\* self._looks_like_selection_command(text), the test process_command makes
\* (l.329), and self._extract_selection_index(text)
ExtractSelectionIndex ==
    /\ Called
    /\ Last.call = "_extract_selection_index"
    /\ Len(Last.results) = 0
    /\ turn' = Some([Last EXCEPT !.results =
                        <<[selection |-> _looks_like_selection_command(Last.text),
                           index |-> _extract_selection_index(Last.text)]>>])
    /\ UNCHANGED <<conversation_state, chat_mode, is_exited, is_cleaning_up,
                   socketio, ollama_client, in_flight,
                   assistant, voice_recognizer, now,
                   conversation_history>>

\* content = response['message']['content'].strip(),
\* filtered_response = self._filter_think_tags(content), and the return of
\* l.444-449
FilterThinkTags ==
    /\ Called
    /\ Last.call = "_filter_think_tags"
    /\ Len(Last.results) = 0
    /\ turn' = Some([Last EXCEPT !.results = <<filtered_response(Last.text)>>])
    /\ UNCHANGED <<conversation_state, chat_mode, is_exited, is_cleaning_up,
                   socketio, ollama_client, in_flight,
                   assistant, voice_recognizer, now,
                   conversation_history>>

NextText ==
    CleanText \/ ExtractColumnNumber \/ ExtractSelectionIndex \/ FilterThinkTags

SpecText == InitText /\ [][NextText]_vars

\* C19: _clean_text is idempotent: for every text x,
\* _clean_text(_clean_text(x)) = _clean_text(x); deleting a filler word or
\* removing the blanks leaves no text in which a filler word or a correction
\* matches anew.
C19_CleanTextIdempotent ==
    (Called /\ Last.call = "_clean_text" /\ Len(Last.results) = 2) =>
        Last.results[2] = Last.results[1]

\* C19: 关 毕 has been cleaned to 关毕, and 关毕 to 关闭
C19_BlankHidTheCorrection ==
    /\ Called
    /\ Last.call = "_clean_text"
    /\ Last.text = <<"guan", " ", "bi2">>
    /\ Last.results = <<<<"guan", "bi2">>, <<"guan", "bi">>>>

\* C20: for every column n in 1..30 and every pattern of
\* _extract_column_number, the function applied to n written into the
\* pattern returns n, for n written in digits and for n written as a Chinese
\* numeral 一 .. 三十.
C20_ColumnRoundTrip ==
    (Called /\ Last.call = "_extract_column_number" /\ Len(Last.results) = 1) =>
        Last.results[1] = Some(Last.column)

\* C20: for 第二十一列 the function has returned None
C20_TwentyOneNotFound ==
    /\ Called
    /\ Last.call = "_extract_column_number"
    /\ Last.text = <<"di", "er", "shi", "yi", "lie">>
    /\ Last.column = <<"2", "1">>
    /\ Last.results = <<None>>

\* utterances matching an entry of explicit_patterns, one or two for each
\* device target, with the message type of the target
DeviceCalls ==
    {[text |-> <<"da", "kai", "3", "lie", "gui", "zi">>, type |-> "open_cabinet"],
     [text |-> <<"guan", "bi", "gui", "zi">>, type |-> "close_cabinet"],
     [text |-> <<"guan", "bi", "kong", "tiao2">>, type |-> "air_control"],
     [text |-> <<"guan", "bi", "chu2", "shi2">>, type |-> "dehumidifier_control"],
     [text |-> <<"da", "kai", "chu2", "shu2", "qi4">>, type |-> "shu_control"],
     [text |-> <<"gao", "pin", "mo", "shi5">>, type |-> "shu_control"],
     [text |-> <<"da", "kai", "tong2", "feng">>, type |-> "control_air_conditioner"],
     [text |-> <<"cha", "xun", "zhuang", "tai">>, type |-> "query_cabinet_status"]}

\* C21: an utterance that matches the explicit device-control table for a
\* target (cabinet, air conditioner, dehumidifier and its modes, rodent
\* repeller and its modes, ventilation, status query), taken while the
\* conversation is idle and the socket works, emits exactly one message,
\* and the message has the type of that target, not query_record and not
\* ai_response.
C21_OneMessagePerDeviceTarget ==
    \A call \in DeviceCalls :
        (Served /\ Last.text = call.text /\ Idle(Last.before)
                /\ Known[call.text]._is_explicit_device_control
                /\ socketio = "present" /\ Delivered) =>
            /\ Len(Last.sent) = 1
            /\ Last.sent[1].type = call.type

\* C21: 查询状态, which matches the device table, said while idle has been
\* sent on as an archive query for the name 状态
C21_StatusQueryTakenAsArchiveQuery ==
    /\ Served
    /\ Last.text = <<"cha", "xun", "zhuang", "tai">>
    /\ Idle(Last.before)
    /\ Known[Last.text]._is_explicit_device_control
    /\ Known[Last.text]._is_archive_query_by_name
    /\ Len(Last.sent) = 1
    /\ Last.sent[1].type = "query_record"
    /\ Last.sent[1].params = [name |-> <<"zhuang", "tai">>]
    /\ conversation_state.expecting_selection

\* the message types of device control, archive query and selection
DeviceQuerySelectionTypes ==
    {"open_cabinet", "close_cabinet", "air_control", "dehumidifier_control",
     "shu_control", "control_air_conditioner", "control_thermo_hygro_sensor",
     "query_cabinet_status", "query_record", "select_record"}

\* the replies the handlers give when send_websocket_message returns False
FailurePhrases ==
    {"open_send_failed", "close_send_failed", "selection_send_failed",
     "archive_send_failed", "temperature_send_failed",
     "ventilation_send_failed", "status_send_failed",
     "dehumidifier_send_failed", "air_conditioner_send_failed",
     "rodent_send_failed"}

\* C22: whenever a turn would emit a device, query or selection message and
\* send_websocket_message returns False (the socket is missing or emit
\* raises), the turn calls send_websocket_message exactly once and
\* process_command returns the failure phrase of the handler; this holds on
\* every path, cabinet open, column input, archive query and selection
\* included.
C22_FailedSendIsReported ==
    ~is_cleaning_up =>
        \A text \in Heard, llm \in LlmOutcomes :
            \E sent \in {process_command([Self EXCEPT !.socketio = "present"],
                             text, [emit_ok |-> TRUE, llm |-> llm]).sent} :
                (Len(sent) > 0 /\ sent[1].type \in DeviceQuerySelectionTypes) =>
                    \E done \in {process_command(Self, text,
                                     [emit_ok |-> FALSE, llm |-> llm])} :
                        /\ done.calls = 1
                        /\ done.sent = <<>>
                        /\ done.response \in FailurePhrases

\* C22: 3列 said while a column was awaited, with the send failing, has
\* cleared the wait and returned None
C22_FailedColumnSendReturnedNone ==
    /\ Served
    /\ Last.before.waiting_for_column
    /\ Last.text = <<"3", "lie">>
    /\ Last.calls = 1
    /\ Last.sent = <<>>
    /\ Last.response = ReturnsNone
    /\ ~conversation_state.waiting_for_column

\* C23: when client.chat does not return within the timeout in a turn that
\* goes to the language model, the turn still ends and process_command
\* returns the phrase _send_via_http gives on timeout (小智正在努力学习这个问题),
\* not a connection-error message and not an exception.
C23_TimeoutAnsweredStillLearning ==
    ~is_cleaning_up =>
        \A text \in Heard, emit_ok \in BOOLEAN :
            \E replied \in {process_command(Self, text,
                                [emit_ok |-> emit_ok, llm |-> "reply"])} :
                replied.response = "ollama_response" =>
                    \E done \in {process_command(Self, text,
                                     [emit_ok |-> emit_ok, llm |-> "timeout"])} :
                        /\ ~done.raised
                        /\ done.response = _send_via_http("timeout")
                        /\ done.response \notin
                               {"cannot_connect", "ai_connection_failed",
                                "connection_error_details"}

\* C23: 今天天气怎么样 asked with the client ready and client.chat timing out
\* has been answered with the connection error of send_message
C23_TimeoutAnsweredCannotConnect ==
    /\ Served
    /\ Last.text = <<"jin", "tian", "tian", "qi3", "u600e", "u4e48", "u6837">>
    /\ ollama_client = "ready"
    /\ _send_via_http("timeout") = "still_learning"
    /\ send_chat_message("timeout") = "cannot_connect"
    /\ Last.response = "cannot_connect"
    /\ Len(Last.sent) = 1
    /\ Last.sent[1].params = [response |-> "cannot_connect"]

\* the replies given when the language model cannot be asked
DegradedResponses == {"ai_unavailable", "ai_connection_failed"}

\* C24: a turn that would go to the language model, taken before
\* ollama_task has set the ollama_client attribute, after it has set it to
\* None, or while the service is unreachable, is answered with a fixed
\* degraded-service reply: the client is not asked, nothing is raised and
\* the conversation state is left as it was.
C24_DegradedWhenNotReady ==
    ~is_cleaning_up =>
        \A text \in Heard, env \in Environments :
            \E ready \in {process_command([Self EXCEPT !.ollama_client = "ready"],
                              text, [env EXCEPT !.llm = "reply"])} :
                (/\ ready.response = "ollama_response"
                 /\ \/ ollama_client \in {"unset", "None"}
                    \/ env.llm = "down") =>
                    \E done \in {process_command(Self, text, env)} :
                        /\ done.response \in DegradedResponses
                        /\ done.response \notin
                               {send_message(llm) : llm \in LlmOutcomes}
                        /\ ~done.raised
                        /\ done.self.conversation_state = conversation_state
                        /\ done.self.chat_mode = chat_mode

\* C24: 今天天气怎么样 asked after ollama_task had set the client to None has
\* been answered with AI服务暂不可用 and the conversation state is unchanged
C24_AnsweredUnavailable ==
    /\ Served
    /\ Last.text = <<"jin", "tian", "tian", "qi3", "u600e", "u4e48", "u6837">>
    /\ ollama_client = "None"
    /\ Last.response = "ai_unavailable"
    /\ conversation_state = Last.before
    /\ ~is_exited

\* C25: chat mode can be entered and has its own exit: from an idle
\* conversation some utterance sets chat_mode, and an exit command taken
\* while chat_mode is set clears it, is answered with a farewell of
\* _exit_chat_mode and leaves the conversation idle.
C25_ChatModeEnteredAndLeft ==
    ~is_cleaning_up =>
        /\ Idle(conversation_state) =>
               \E text \in Heard \cup EnterChatCalls, env \in Environments :
                   process_command(Self, text, env).self.chat_mode
        /\ chat_mode =>
               \A env \in Environments :
                   \E done \in {process_command(Self, <<"tui", "chu">>, env)} :
                       /\ done.response = "chat_farewell"
                       /\ ~done.self.chat_mode
                       /\ ~done.self.conversation_state.waiting_for_column
                       /\ ~done.self.conversation_state.waiting_for_temperature
                       /\ ~done.self.conversation_state.expecting_selection

\* C25: 进入聊天模式 said while idle has gone to the language model and
\* chat_mode is still False
C25_AskedForChatModeAndStayedOut ==
    /\ Served
    /\ Last.text = <<"u8fdb", "u5165", "liao", "tian", "mo", "shi5">>
    /\ Last.text \in EnterChatCalls
    /\ Idle(Last.before)
    /\ Len(Last.sent) = 1
    /\ Last.sent[1].type = "ai_response"
    /\ ~chat_mode
    /\ \A text \in Spoken, env \in Environments :
           ~process_command(Self, text, env).self.chat_mode

\* C26: while waiting_for_column is set, an utterance that is an archive
\* query or an explicit device command (and no wake-up call, exit or
\* selection) is taken as the column input: the turn emits no query_record
\* and no device message other than open_cabinet, and expecting_selection
\* is left as it was.
C26_ColumnInputBeforeArchiveAndDevice ==
    (/\ ColumnTurn
     /\ ~Known[Last.text]._looks_like_selection_command
     /\ \/ Known[Last.text]._is_archive_query_by_name
        \/ Known[Last.text]._is_explicit_device_control) =>
        /\ \A i \in DOMAIN Last.sent : Last.sent[i].type = "open_cabinet"
        /\ Last.calls <= 1
        /\ Last.response \in {ReturnsNone, "ask_column_again"}
        /\ conversation_state.expecting_selection =
               Last.before.expecting_selection

\* C26: 查询档案0567 said while a column was awaited has been taken as the
\* column: open_cabinet with colNo 0567 was emitted and no selection is
\* expected
C26_ArchiveQueryTakenAsColumn ==
    /\ ColumnTurn
    /\ Last.text = <<"cha", "xun", "dang", "an", "0", "5", "6", "7">>
    /\ Known[Last.text]._is_archive_query_by_name
    /\ Last.sent = <<[event |-> "command", type |-> "open_cabinet",
                      params |-> [colNo |-> <<"0", "5", "6", "7">>], user_text |-> Last.text]>>
    /\ ~Last.before.expecting_selection
    /\ ~conversation_state.expecting_selection
    /\ ~conversation_state.waiting_for_column

\* C27: an utterance made of a greeting and 小智 followed by a device or
\* query command is no wake-up call: _is_pure_wakeup_call returns False on
\* it and the turn does what the turn on the command alone does - the same
\* reply, messages of the same types and the same state afterwards.
C27_GreetedCommandIsDispatched ==
    ~is_cleaning_up =>
        \A g \in GreetedCommands, env \in Environments :
            /\ ~Known[g.text]._is_pure_wakeup_call
            /\ \E done \in {process_command(Self, g.text, env)} :
                   \E alone \in {process_command(Self, g.command, env)} :
                       /\ done.response = alone.response
                       /\ done.self = alone.self
                       /\ [i \in DOMAIN done.sent |-> done.sent[i].type] =
                              [i \in DOMAIN alone.sent |-> alone.sent[i].type]

\* C27: 你好小智打开柜子 said while idle has been answered with a greeting:
\* no column is awaited and nothing was emitted
C27_GreetedCommandWasDropped ==
    /\ Served
    /\ \E g \in GreetedCommands : g.text = Last.text /\ g.command = <<"da", "kai", "gui", "zi">>
    /\ Idle(Last.before)
    /\ Known[Last.text]._is_pure_wakeup_call
    /\ Last.response = _get_greeting_response
    /\ Last.sent = <<>>
    /\ ~conversation_state.waiting_for_column

\* C28: an utterance holding a run of three or more digits and no query
\* verb (0567, 档案0567, 123, 0567号), taken while the conversation is idle
\* and the socket works, is an archive query: _is_archive_query_by_name
\* returns True on it and the turn emits query_record with the digit run.
C28_DigitRunIsArchiveQuery ==
    (Idle(conversation_state) /\ ~is_cleaning_up /\ socketio = "present") =>
        \A b \in BareRecordCodes, env \in Environments :
            env.emit_ok =>
                /\ Known[b.text]._is_archive_query_by_name
                /\ \E done \in {process_command(Self, b.text, env)} :
                       \E i \in DOMAIN done.sent :
                           /\ done.sent[i].type = "query_record"
                           /\ done.sent[i].params = [name |-> b.code]

\* C28: 0567 said while idle with a working socket has been handed to the
\* language model: one ai_response was emitted and no selection is expected
C28_BareCodeWentToModel ==
    /\ Served
    /\ Last.text = <<"0", "5", "6", "7">>
    /\ \E b \in BareRecordCodes : b.text = Last.text
    /\ Idle(Last.before)
    /\ socketio = "present"
    /\ Delivered
    /\ ~Known[Last.text]._is_archive_query_by_name
    /\ Len(Last.sent) = 1
    /\ Last.sent[1].type = "ai_response"
    /\ ~conversation_state.expecting_selection

\* C29: for every k in 1..20, _extract_selection_index applied to 第k条 and
\* to 第k个 with k written as a Chinese numeral 一 .. 二十 returns k, and the
\* bare digit string of k is a selection command
\* (_looks_like_selection_command) for which it returns k as well.
C29_SelectionIndexRoundTrip ==
    (Called /\ Last.call = "_extract_selection_index" /\ Len(Last.results) = 1) =>
        /\ Last.results[1].index = Some(ToInt(Last.column))
        /\ IsDigitStr(Last.text) => Last.results[1].selection

\* C29: the digit string 12 has been found to be no selection command, and
\* no index was found in it
C29_BareDigitsNoSelection ==
    /\ Called
    /\ Last.call = "_extract_selection_index"
    /\ Last.text = <<"1", "2">>
    /\ Last.column = <<"1", "2">>
    /\ Last.results = <<[selection |-> FALSE, index |-> None]>>

\* text a holds a complete span: <think> and, after it, </think>
HoldsSpan(a) ==
    \E i \in 1..Len(a) :
        /\ OccursAt(a, think_open, i)
        /\ \E j \in (i + Len(think_open))..Len(a) : OccursAt(a, think_close, j)

\* a is b with some characters left out, the others in their order
RECURSIVE KeptInOrder(_, _)
KeptInOrder(a, b) ==
    IF Len(a) = 0 THEN TRUE
    ELSE IF Len(b) = 0 THEN FALSE
    ELSE IF a[1] = b[1] THEN KeptInOrder(Tail(a), Tail(b))
    ELSE KeptInOrder(a, Tail(b))

\* C30: for every raw reply of the model the text _send_via_http returns
\* holds no complete <think>...</think> span; it is one of the fixed replies
\* or the characters of the raw reply outside the spans in their order (a
\* reply without an opening tag is returned as it is, blanks at the ends
\* apart); and it is never empty or blank: a reply of which nothing but
\* blanks would be left is answered with a fixed reply.
C30_ThinkSpansStripped ==
    (Called /\ Last.call = "_filter_think_tags" /\ Len(Last.results) = 1) =>
        /\ ~HoldsSpan(Last.results[1])
        /\ Len(Strip(Last.results[1])) > 0
        /\ \/ Last.results[1] \in {still_learning_default, working_on_it}
           \/ /\ KeptInOrder(Last.results[1], Last.text)
              /\ ~Has(Last.text, think_open) => Last.results[1] = Strip(Last.text)

\* C30: for the reply <thi<think></think>nk></think> the text
\* <think></think>, a complete span, has been returned
C30_SplicedSpanReturned ==
    /\ Called
    /\ Last.call = "_filter_think_tags"
    /\ Last.text = <<"<", "t", "h", "i">> \o think_open \o think_close
                       \o <<"n", "k", ">">> \o think_close
    /\ Last.results = <<think_open \o think_close>>
    /\ HoldsSpan(Last.results[1])

\* C32: a call of process_command calls send_websocket_message at most once,
\* whatever the utterance and the conversation state: no turn emits two
\* command messages (device, query, selection or ai_response).
C32_AtMostOneMessagePerTurn ==
    Called =>
        /\ Last.calls <= 1
        /\ \A i, j \in DOMAIN Last.sent :
               (Last.sent[i].event = "command" /\ Last.sent[j].event = "command") => i = j

\* C32: 打开3列柜子 said while a selection was expected and the socket works
\* has called send_websocket_message once and emitted one message,
\* open_cabinet
C32_OneMessageWasSent ==
    /\ Served
    /\ Last.text = <<"da", "kai", "3", "lie", "gui", "zi">>
    /\ Last.before.expecting_selection
    /\ Last.calls = 1
    /\ Len(Last.sent) = 1
    /\ Last.sent[1].event = "command"
    /\ Last.sent[1].type = "open_cabinet"

\* C33: every utterance on which _is_exit_command returns True, the exit
\* patterns that begin with 小智 included (小智退出, 小智再见, 小智拜拜), is
\* handled as an exit in every conversation state: process_command returns a
\* farewell, sets is_exited and leaves the conversation state reset; the turn
\* is not answered as a wake-up call.
C33_ExitPhraseHandledAsExit ==
    ~is_cleaning_up =>
        \A text \in ExitCalls, env \in Environments :
            Known[text]._is_exit_command[chat_mode] =>
                \E done \in {process_command(Self, text, env)} :
                    /\ done.response \in {"farewell", "chat_farewell"}
                    /\ done.self.is_exited
                    /\ done.self.conversation_state = reset_conversation_state

\* C33: while a column is awaited, 小智退出 is an exit command and a wake-up
\* call at once, and the turn on it returns the greeting and keeps waiting
C33_ExitAnsweredAsWakeup ==
    /\ ~is_cleaning_up
    /\ conversation_state.waiting_for_column
    /\ Known[<<"xiao", "zhi", "tui", "chu">>]._is_exit_command[chat_mode]
    /\ Known[<<"xiao", "zhi", "tui", "chu">>]._is_pure_wakeup_call
    /\ \A env \in Environments :
           \E done \in {process_command(Self, <<"xiao", "zhi", "tui", "chu">>, env)} :
               /\ done.response = _get_greeting_response
               /\ ~done.self.is_exited
               /\ done.self.conversation_state = conversation_state

\* C34: a close verb before a mode of the dehumidifier (关闭除湿, 关闭净化,
\* 关闭加湿) never starts the mode: no dehumidifier_control message the turn
\* emits carries the command code that switches that mode on (3 dehumidify,
\* 7 purify, 4 humidify).
C34_CloseNeverStartsMode ==
    ~is_cleaning_up =>
        \A call \in CloseModeCalls, env \in Environments :
            \E done \in {process_command(Self, call.text, env)} :
                \A i \in DOMAIN done.sent :
                    done.sent[i].type = "dehumidifier_control" =>
                        done.sent[i].params.command # call.on

\* C34: 关闭除湿 said while idle with a working socket has emitted
\* dehumidifier_control with command 3, which starts dehumidifying
C34_CloseStartedDehumidifying ==
    /\ Served
    /\ \E call \in CloseModeCalls : call.text = Last.text /\ call.on = 3
    /\ Idle(Last.before)
    /\ Len(Last.sent) = 1
    /\ Last.sent[1].type = "dehumidifier_control"
    /\ Last.sent[1].params.command = 3
    /\ ~Last.sent[1].params.switchOnOrOff
    /\ Last.response = "dehumidify_mode_on"

\* the turn was handled by _handle_archive_query_by_name_websocket
ArchiveTurn ==
    /\ Served
    /\ ~Known[Last.text]._is_pure_wakeup_call
    /\ ~Known[Last.text]._is_exit_command[chat_mode]
    /\ ~Known[Last.text]._looks_like_selection_command
    /\ ~Last.before.waiting_for_column
    /\ Known[Last.text]._is_archive_query_by_name

\* C35: an archive-query turn whose query_record message was not emitted, or
\* in which no query value was found, leaves every field of
\* conversation_state as it was, expecting_selection included; and
\* expecting_selection becomes true only in a turn that emitted query_record.
C35_FailedArchiveQueryKeepsState ==
    /\ (ArchiveTurn /\ \A i \in DOMAIN Last.sent : Last.sent[i].type # "query_record") =>
           /\ conversation_state = Last.before
           /\ Last.response \in {"ask_archive", "archive_send_failed"}
    /\ (Served /\ ~Last.before.expecting_selection
               /\ conversation_state.expecting_selection) =>
           \E i \in DOMAIN Last.sent : Last.sent[i].type = "query_record"

\* C35: 查询档案0567 said while idle was not emitted (the socket failed): the
\* turn answered that sending failed and no selection is expected
C35_ArchiveQueryNotSent ==
    /\ ArchiveTurn
    /\ Last.text = <<"cha", "xun", "dang", "an", "0", "5", "6", "7">>
    /\ Idle(Last.before)
    /\ Last.calls = 1
    /\ Last.sent = <<>>
    /\ Last.response = "archive_send_failed"
    /\ ~conversation_state.expecting_selection
    /\ conversation_state = Last.before

\* C36: once cleanup() has run, every call of process_command on a
\* non-empty text returns the shutting-down message, calls
\* send_websocket_message not at all and emits nothing, changes no field of
\* the handler (no handler of an intent ran), and the conversation state is
\* at its reset value.
C36_ShutdownGate ==
    is_cleaning_up =>
        /\ conversation_state = reset_conversation_state
        /\ \A text \in Heard, env \in Environments :
               Len(text) > 0 =>
                   \E done \in {process_command(Self, text, env)} :
                       /\ done.response = "shutting_down"
                       /\ done.sent = <<>>
                       /\ done.calls = 0
                       /\ done.self = Self

\* C36: after cleanup(), which found a column awaited, 打开3列柜子 has been
\* answered with the shutting-down message and nothing was emitted
C36_RefusedWhileShuttingDown ==
    /\ is_cleaning_up
    /\ Called
    /\ Last.text = <<"da", "kai", "3", "lie", "gui", "zi">>
    /\ Last.response = "shutting_down"
    /\ Last.sent = <<>>
    /\ Last.calls = 0
    /\ socketio = "present"
    /\ conversation_state = reset_conversation_state

(***************************************************************************)
(* The assistant's wake/sleep loop: XiaoZhiAssistant.run_voice_mode         *)
(* (main.py l.737-860).  Asleep it listens for the wake word only; awake it *)
(* sleeps when the wake timeout has passed, and else hands the text it      *)
(* heard to process_command and sleeps when the text is an exit command.    *)
(***************************************************************************)
\* command_handler._is_exit_command(text) as run_voice_mode calls it
\* (l.839), on the utterances heard
ExitHeard == [text \in Heard |-> [c \in BOOLEAN |-> _is_exit_command(text, c)]]

\* _handle_wakeup (l.862-865)
_handle_wakeup(a) == [a EXCEPT !.is_awake = TRUE, !.is_exited = FALSE]

\* _handle_sleep (l.884-887): the assistant's own fields
_handle_sleep(a) == [a EXCEPT !.is_awake = FALSE, !.is_exited = TRUE]

\* the command handler left as it is by a sleep
SleptHandlerUnchanged(self) == self

\* _handle_sleep (l.890-891): self.command_handler.reset_conversation_state()
SleptHandler(self) == [self EXCEPT !.conversation_state = reset_conversation_state]

\* listen_for_wake_word() returned True while asleep (l.783-801)
WakeWordDetected ==
    /\ ~assistant.is_awake
    /\ assistant' = _handle_wakeup(assistant)
    /\ turn' = None
    /\ UNCHANGED <<conversation_state, chat_mode, is_exited, is_cleaning_up,
                   socketio, ollama_client, in_flight, voice_recognizer, now,
                   conversation_history>>

\* time.time() - self.last_wake_time > self.wake_timeout while awake
\* (l.815-818)
WakeTimeout ==
    /\ assistant.is_awake
    /\ assistant' = _handle_sleep(assistant)
    /\ Becomes(SleptHandler(Self))
    /\ turn' = None
    /\ UNCHANGED <<in_flight, voice_recognizer, now,
                   conversation_history>>

\* record_and_transcribe returned text while awake (l.821-841):
\* process_command(text), and _handle_sleep() when it returned a response
\* and the text is an exit command
CommandHeard(text, env) ==
    /\ assistant.is_awake
    /\ \E done \in {process_command(Self, text, env)} :
           \E sleeps \in {IF done.response = ReturnsNone THEN FALSE
                          ELSE ExitHeard[text][done.self.chat_mode]} :
               /\ Becomes(IF sleeps THEN SleptHandler(done.self) ELSE done.self)
               /\ assistant' = IF sleeps THEN _handle_sleep(assistant) ELSE assistant
               /\ turn' = Some([text |-> text, before |-> conversation_state,
                                response |-> done.response,
                                sent |-> done.sent, calls |-> done.calls])
    /\ UNCHANGED <<in_flight, voice_recognizer, now,
                   conversation_history>>

NextVoice ==
    \/ WakeWordDetected
    \/ WakeTimeout
    \/ \E text \in Heard \ {<<>>}, env \in Environments : CommandHeard(text, env)
    \/ OllamaTask

SpecVoice == Init /\ [][NextVoice]_vars

\* C37: in the wake/sleep loop is_awake and is_exited of the assistant are
\* opposite, and while the assistant is asleep - after a wake timeout or an
\* exit utterance - the conversation of the command handler is idle: no
\* waiting flag is set and pending_action is None, so the wake-up that
\* follows finds no slot awaited.
C37_SleepLeavesCleanConversation ==
    /\ assistant.is_awake = ~assistant.is_exited
    /\ ~assistant.is_awake =>
           /\ Idle(conversation_state)
           /\ conversation_state.pending_action = "None"
           /\ conversation_state.pending_context = "None"

\* C37: the assistant went to sleep on 退出, said while a column was awaited,
\* and no column is awaited now
C37_SleptOutOfColumnWait ==
    /\ Called
    /\ Last.text = <<"tui", "chu">>
    /\ Last.before.waiting_for_column
    /\ ~assistant.is_awake
    /\ assistant.is_exited
    /\ conversation_state = reset_conversation_state

(***************************************************************************)
(* Listening against playback: VoiceRecognizer.record_until_silence         *)
(* (voice_recognizer.py l.283-446), run by the voice loop, and the          *)
(* audio_playback_worker thread (main.py l.508-576).  The two threads       *)
(* interleave statement by statement.  Time is counted in chunks:           *)
(* stream.read(self.chunk) returns when one chunk of audio has come in, the *)
(* work on a chunk (volume, recogniser) takes less than one chunk more, and *)
(* the other statements of the recording loop take no time; the playback    *)
(* worker takes any time for each of its steps.                             *)
(***************************************************************************)
\* the last tick of the clock
MaxTime == 20

\* should_ignore_for_playback without the cooldown
should_ignore_while_speaking(vr, t) == vr._is_speaking

\* should_ignore_for_playback (l.95-104) at time t
should_ignore_for_playback(vr, t) ==
    IF vr._is_speaking THEN TRUE
    ELSE t - vr._last_speech_end_time < _playback_cooldown

\* set_speaking_status (l.80-93) at time t
set_speaking_status(vr, is_speaking, t) ==
    IF vr._is_speaking = is_speaking THEN vr
    ELSE IF is_speaking THEN [vr EXCEPT !._is_speaking = TRUE]
    ELSE [vr EXCEPT !._is_speaking = FALSE, !._last_speech_end_time = t]

\* the places of record_until_silence at which the stream is open
Recording == {"loop", "reading", "processing", "processed", "closing"}

\* record_until_silence is called (l.283-318): None at once while the system
\* speaks or cools down, else the stream is opened
StartRecording ==
    /\ voice_recognizer.recording.pc = "idle"
    /\ voice_recognizer' =
           [voice_recognizer EXCEPT !.recording =
               IF should_ignore_for_playback(voice_recognizer, now)
               THEN NotRecording
               ELSE [pc |-> "loop", overlapped |-> FALSE, result |-> "None"]]
    /\ UNCHANGED <<conversation_state, chat_mode, is_exited, is_cleaning_up,
                   socketio, ollama_client, turn, in_flight, assistant, now,
                   conversation_history>>

\* the test at the head of the recording loop (l.336-338), and the call of
\* stream.read (l.340)
LoopCheck ==
    /\ voice_recognizer.recording.pc = "loop"
    /\ voice_recognizer' =
           [voice_recognizer EXCEPT !.recording.pc =
               IF should_ignore_for_playback(voice_recognizer, now)
               THEN "closing" ELSE "reading"]
    /\ UNCHANGED <<conversation_state, chat_mode, is_exited, is_cleaning_up,
                   socketio, ollama_client, turn, in_flight, assistant, now,
                   conversation_history>>

\* one chunk of time passes: a stream.read that was waiting returns, and the
\* work on a chunk that was going on ends
Tick ==
    /\ now < MaxTime
    /\ voice_recognizer.recording.pc \in {"idle", "reading", "processing"}
    /\ now' = now + 1
    /\ voice_recognizer' =
           [voice_recognizer EXCEPT !.recording.pc =
               CASE @ = "reading" -> "processing"
                 [] @ = "processing" -> "processed"
                 [] OTHER -> @]
    /\ UNCHANGED <<conversation_state, chat_mode, is_exited, is_cleaning_up,
                   socketio, ollama_client, turn, in_flight, assistant,
                   conversation_history>>

\* no stop condition holds (l.342-381): the loop goes round
ContinueRecording ==
    /\ voice_recognizer.recording.pc \in {"processing", "processed"}
    /\ voice_recognizer' = [voice_recognizer EXCEPT !.recording.pc = "loop"]
    /\ UNCHANGED <<conversation_state, chat_mode, is_exited, is_cleaning_up,
                   socketio, ollama_client, turn, in_flight, assistant, now,
                   conversation_history>>

\* a stop condition holds (l.364-381): break
StopRecording ==
    /\ voice_recognizer.recording.pc \in {"processing", "processed"}
    /\ voice_recognizer' = [voice_recognizer EXCEPT !.recording.pc = "closing"]
    /\ UNCHANGED <<conversation_state, chat_mode, is_exited, is_cleaning_up,
                   socketio, ollama_client, turn, in_flight, assistant, now,
                   conversation_history>>

\* the stream is closed and the playback state tested once more (l.384-390);
\* then the text recognised, if any, is returned (l.392-435)
FinishRecording ==
    /\ voice_recognizer.recording.pc = "closing"
    /\ \E recognized \in {"text", "None"} :
           voice_recognizer' =
               [voice_recognizer EXCEPT
                   !.recording.pc = "idle",
                   !.recording.result =
                       IF should_ignore_for_playback(voice_recognizer, now)
                       THEN "None" ELSE recognized]
    /\ UNCHANGED <<conversation_state, chat_mode, is_exited, is_cleaning_up,
                   socketio, ollama_client, turn, in_flight, assistant, now,
                   conversation_history>>

\* the playback worker has taken a text from the queue and calls
\* voice_recognizer.set_speaking_status(True) (main.py l.518-530)
StartSpeaking ==
    /\ assistant.playback = "waiting"
    /\ assistant' = [assistant EXCEPT !.playback = "speaking"]
    /\ voice_recognizer' =
           [set_speaking_status(voice_recognizer, TRUE, now) EXCEPT
               !.recording.overlapped =
                   IF voice_recognizer.recording.pc \in Recording THEN TRUE ELSE @]
    /\ UNCHANGED <<conversation_state, chat_mode, is_exited, is_cleaning_up,
                   socketio, ollama_client, turn, in_flight, now,
                   conversation_history>>

\* audio_processor.speak(text) has returned or raised, and the worker calls
\* voice_recognizer.set_speaking_status(False) (main.py l.539-551, l.569-571)
StopSpeaking ==
    /\ assistant.playback = "speaking"
    /\ assistant' = [assistant EXCEPT !.playback = "waiting"]
    /\ voice_recognizer' = set_speaking_status(voice_recognizer, FALSE, now)
    /\ UNCHANGED <<conversation_state, chat_mode, is_exited, is_cleaning_up,
                   socketio, ollama_client, turn, in_flight, now,
                   conversation_history>>

NextPlayback ==
    \/ StartRecording
    \/ LoopCheck
    \/ Tick
    \/ ContinueRecording
    \/ StopRecording
    \/ FinishRecording
    \/ StartSpeaking
    \/ StopSpeaking

SpecPlayback == Init /\ [][NextPlayback]_vars

C39_ColumnWaitIsForOpening ==
    /\ conversation_state.waiting_for_column =>
           /\ conversation_state.pending_action = "open"
           /\ conversation_state.pending_context = "cabinet_control"
    /\ ColumnTurn =>
           /\ Last.before.pending_action = "open"
           /\ \A i \in 1..Len(Last.sent) : Last.sent[i].type # "close_cabinet"
           /\ Last.response \notin {"closing_all_cabinets", "close_send_failed"}

\* C39: a column was asked for while a temperature was being waited for, and
\* the next turn, with both waits on and pending_action 'open', opened the
\* column
C39_OpenedWhileTemperaturePending ==
    /\ ColumnTurn /\ Delivered
    /\ Last.before.waiting_for_temperature
    /\ Last.before.pending_action = "open"
    /\ Last.before.pending_context = "cabinet_control"
    /\ Len(Last.sent) = 1
    /\ Last.sent[1].type = "open_cabinet"
    /\ ~conversation_state.waiting_for_column

(***************************************************************************)
(* The history of the language-model client: calls of                      *)
(* OllamaClient.send_message, one after the other, on the client that      *)
(* ollama_task has made.  turn records the last call: its message, its     *)
(* mode, the history it started with, the request it built, what the       *)
(* service did, and log, every pair of the calls so far whose filtered     *)
(* reply passed the test of l.444, oldest first.                           *)
(***************************************************************************)
\* the number of send_message calls followed
MaxTurns == 5

\* the messages of the calls, one after the other
Asked == <<<<"q", "1">>, <<"q", "2">>, <<"q", "3">>, <<"q", "4">>,
           <<"q", "5">>, <<"q", "6">>, <<"q", "7">>, <<"q", "8">>>>

\* what the service does in a call: is_service_available() is False; the
\* join of l.413 times out; client.chat raises; client.chat returns a reply:
\* plain text, a think span before text, nothing but a think span, the
\* phrase of l.444, or nothing
ChatOutcomes ==
    {[kind |-> k, raw |-> <<>>] : k \in {"down", "timeout", "error"}}
    \cup {[kind |-> "reply", raw |-> raw] :
             raw \in {<<"hao">>,
                      think_open \o <<"x">> \o think_close \o <<"hao", "de">>,
                      think_open \o <<"x">> \o think_close,
                      still_thinking,
                      <<>>}}

\* the calls made so far and the pairs they should have left
CallsMade == IF IsSome(turn) THEN Val(turn).n ELSE 0
Log == IF IsSome(turn) THEN Val(turn).log ELSE <<>>

\* send_message(message, chat_mode) (l.337-368) through _send_via_http
\* (l.374-453)
SendMessage(chat, outcome) ==
    /\ ollama_client = "ready"
    /\ CallsMade < MaxTurns
    /\ LET message == Asked[CallsMade + 1]
           messages == IF chat THEN _build_chat_messages(conversation_history, message)
                       ELSE _build_messages_with_history(conversation_history, message)
           filtered == _filter_think_tags(Strip(outcome.raw))
           accepted == outcome.kind = "reply" /\ valid_reply(filtered)
       IN  /\ conversation_history' =
                  IF accepted
                  THEN _update_conversation_history(conversation_history, message, filtered)
                  ELSE conversation_history
           /\ turn' = Some([text |-> message,
                            chat_mode |-> chat,
                            before |-> conversation_history,
                            messages |-> IF outcome.kind = "down" THEN <<>> ELSE messages,
                            outcome |-> outcome,
                            n |-> CallsMade + 1,
                            log |-> IF accepted
                                    THEN Log \o <<[role |-> "user", content |-> message],
                                                  [role |-> "assistant", content |-> filtered]>>
                                    ELSE Log])
    /\ UNCHANGED <<conversation_state, chat_mode, is_exited, is_cleaning_up,
                   socketio, ollama_client, in_flight, assistant,
                   voice_recognizer, now>>

NextHistory ==
    \/ OllamaTask
    \/ \E chat \in BOOLEAN, outcome \in ChatOutcomes : SendMessage(chat, outcome)

SpecHistory == Init /\ [][NextHistory]_vars

\* C31: conversation_history holds at most 8 entries, user and assistant
\* in turn, and they are the last entries of the pairs of all calls whose
\* filtered reply was valid, in the order of the calls; a call changes the
\* history only when the service replied and the filtered reply is valid;
\* and the request a call builds is the system prompt, then the last
\* entries of the history the call started with, at most 8 of them, then
\* the message of the call as the user's.
C31_BoundedHistory ==
    /\ Len(conversation_history) <= 8
    /\ \A i \in 1..Len(conversation_history) :
           conversation_history[i].role = IF i % 2 = 1 THEN "user" ELSE "assistant"
    /\ Len(conversation_history) % 2 = 0
    /\ conversation_history = LastN(Log, 8)
    /\ IsSome(turn) =>
           LET call == Val(turn)
               k == Len(call.messages)
           IN  /\ conversation_history # call.before =>
                      /\ call.outcome.kind = "reply"
                      /\ valid_reply(_filter_think_tags(Strip(call.outcome.raw)))
                      /\ conversation_history[Len(conversation_history)] =
                             [role |-> "assistant",
                              content |-> _filter_think_tags(Strip(call.outcome.raw))]
                      /\ conversation_history[Len(conversation_history) - 1] =
                             [role |-> "user", content |-> call.text]
               /\ k > 0 =>
                      /\ call.messages[1].role = "system"
                      /\ call.messages[k] = [role |-> "user", content |-> call.text]
                      /\ k - 2 <= 8
                      /\ SubSeq(call.messages, 2, k - 1) = LastN(call.before, k - 2)

\* C31: a call in chat mode on a full history got a valid reply: its
\* request held the last six entries of the history, and the oldest pair
\* is gone from the history
C31_OldestPairsDropped ==
    /\ IsSome(turn)
    /\ Len(Log) > 8
    /\ Len(conversation_history) = 8
    /\ conversation_history[1] # Log[1]
    /\ Val(turn).chat_mode
    /\ Len(Val(turn).before) = 8
    /\ Len(Val(turn).messages) = 8
    /\ conversation_history # Val(turn).before

=============================================================================
